---- MODULE Spec2Model ----
(***************************************************************************)
(* Model of nichi's batch translation client                              *)
(* (src/src/nichi/gemini_translator.py), of the inline response parser,   *)
(* translate_file and translate_directory of the older client             *)
(* (src/src/nichi/translator.py), of the SRT parsers (srt_parser.py,      *)
(* translator.py) and of the file name parser (jellyfin_parser.py).       *)
(*                                                                         *)
(* A Python str is a sequence of one-character strings; a list of texts   *)
(* is a sequence of such sequences.                                       *)
(***************************************************************************)
EXTENDS Integers, Sequences, FiniteSets, TLC

(***************************************************************************)
(* Bounds of the model                                                     *)
(***************************************************************************)
MaxRawLen == 5          \* longest raw response explored by the parser runs
MaxParseTexts == 2      \* longest text list handed to the parsers
MaxTexts == 2           \* longest text list handed to translate_texts
MaxBatchSize == 2       \* largest TRANSLATION_BATCH_SIZE
MaxRetriesBound == 1    \* largest GEMINI_MAX_RETRIES
MaxConcurrentBound == 2 \* largest MAX_CONCURRENT_REQUESTS
MaxEntries == 3         \* most entries of a subtitle file handed to translate_file
MaxDirFiles == 3        \* most files of a directory handed to translate_directory
MaxSrtEntries == 2      \* most entries of a list written to an SRT file
MaxNameParts == 6       \* most dot-separated pieces of a file name
MaxBatchTexts == 4      \* longest text list split into batches in the batching runs
MaxItemLines == 3       \* most lines of a response built from numbered items
MaxItemTexts == 3       \* longest text list handed to the parsers with such a response
MaxBackoffRetries == 2  \* largest GEMINI_MAX_RETRIES of the backoff runs
MaxBaseDelay == 3       \* largest GEMINI_BASE_DELAY of the backoff runs, in ticks
MaxMaxDelay == 6        \* largest GEMINI_MAX_DELAY of the backoff runs, in ticks
MaxCacheTasks == 2      \* most concurrent batches of the cache step runs

(***************************************************************************)
(* Strings                                                                 *)
(***************************************************************************)
Whitespace == {" ", "\n"}
Digits == {"0", "1", "2", "3", "4", "5", "6", "7", "8", "9"}
DigitChar == <<"0", "1", "2", "3", "4", "5", "6", "7", "8", "9">>

\* characters a raw response is built from in the parser runs
Alphabet == {"1", "2", ".", "a", " ", "\n"}

Min(a, b) == IF a < b THEN a ELSE b

\* s[:n]
Take(s, n) == SubSeq(s, 1, Min(n, Len(s)))

\* s[n:]
Drop(s, n) == SubSeq(s, Min(n, Len(s)) + 1, Len(s))

RECURSIVE lstrip(_)
lstrip(s) ==
    IF s = <<>> THEN s
    ELSE IF Head(s) \in Whitespace THEN lstrip(Tail(s)) ELSE s

RECURSIVE rstrip(_)
rstrip(s) ==
    IF s = <<>> THEN s
    ELSE IF s[Len(s)] \in Whitespace THEN rstrip(SubSeq(s, 1, Len(s) - 1)) ELSE s

\* str.strip()
strip(s) == rstrip(lstrip(s))

RECURSIVE SplitAcc(_, _, _)
SplitAcc(s, cur, acc) ==
    IF s = <<>> THEN Append(acc, cur)
    ELSE IF Head(s) = "\n" THEN SplitAcc(Tail(s), <<>>, Append(acc, cur))
    ELSE SplitAcc(Tail(s), Append(cur, Head(s)), acc)

\* str.split("\n")
split(s) == SplitAcc(s, <<>>, <<>>)

\* str(n) of a number n >= 0
RECURSIVE Decimal(_)
Decimal(n) ==
    IF n < 10 THEN <<DigitChar[n + 1]>>
    ELSE Append(Decimal(n \div 10), DigitChar[(n % 10) + 1])

StartsWith(s, p) == Len(s) >= Len(p) /\ SubSeq(s, 1, Len(p)) = p

\* re.match(rf"^{n}\.\s*(.*)", line) on a line without line breaks
number_match(n, line) ==
    LET prefix == Append(Decimal(n), ".")
    IN  IF StartsWith(line, prefix)
        THEN [matched |-> TRUE, group |-> lstrip(Drop(line, Len(prefix)))]
        ELSE [matched |-> FALSE, group |-> <<>>]

RECURSIVE LeadingDigits(_)
LeadingDigits(s) ==
    IF s = <<>> THEN 0
    ELSE IF Head(s) \in Digits THEN 1 + LeadingDigits(Tail(s)) ELSE 0

\* re.sub(r"^\d+\.\s*", "", s)
strip_number_prefix(s) ==
    LET d == LeadingDigits(s)
    IN  IF d >= 1 /\ Len(s) > d /\ s[d + 1] = "."
        THEN lstrip(Drop(s, d + 1))
        ELSE s

(***************************************************************************)
(* GeminiTranslator._parse_gemini_response (gemini_translator.py)          *)
(***************************************************************************)
\* one iteration of the loop over the lines of the response
parse_line(st, rawline) ==
    LET line == strip(rawline)
        m == number_match(st.expected_number, line)
    IN  IF line = <<>> THEN st
        ELSE IF m.matched
        THEN [translations |->
                  IF st.current_translation # <<>>
                     /\ Len(st.translations) = st.expected_number - 2
                  THEN Append(st.translations, strip(st.current_translation))
                  ELSE st.translations,
              current_translation |-> m.group,
              expected_number |-> st.expected_number + 1]
        ELSE IF st.current_translation # <<>>
        THEN [st EXCEPT !.current_translation = @ \o <<"\n">> \o line]
        ELSE st

RECURSIVE parse_lines(_, _)
parse_lines(lines, st) ==
    IF lines = <<>> THEN st
    ELSE parse_lines(Tail(lines), parse_line(st, Head(lines)))

ParseStart == [translations |-> <<>>, current_translation |-> <<>>, expected_number |-> 1]

\* the numbered pass: the loop and the flush of the last translation
numbered_pass(raw_response) ==
    LET st == parse_lines(split(strip(raw_response)), ParseStart)
    IN  IF st.current_translation # <<>>
        THEN Append(st.translations, strip(st.current_translation))
        ELSE st.translations

\* mutant: the padding loop is missing
pad_with_originals_M(translations, original_texts) == translations

\* while len(translations) < len(original_texts): translations.append(...)
RECURSIVE pad_with_originals(_, _)
pad_with_originals(translations, original_texts) ==
    IF Len(translations) < Len(original_texts)
    THEN pad_with_originals(
             Append(translations, original_texts[Len(translations) + 1]),
             original_texts)
    ELSE translations

_parse_gemini_response(raw_response, original_texts) ==
    IF raw_response = <<>> THEN original_texts
    ELSE Take(pad_with_originals(numbered_pass(raw_response), original_texts),
              Len(original_texts))

(***************************************************************************)
(* The parser inside translate_batch of translator.py                      *)
(***************************************************************************)
inline_parse_line(st, rawline) ==
    LET line == strip(rawline)
        m == number_match(st.expected_number, line)
    IN  IF line = <<>> THEN st
        ELSE IF m.matched
        THEN [translations |->
                  IF st.current_translation # <<>>
                     /\ Len(st.translations) = st.expected_number - 2
                  THEN Append(st.translations, strip(st.current_translation))
                  ELSE st.translations,
              current_translation |-> m.group,
              expected_number |-> st.expected_number + 1]
        ELSE IF st.current_translation # <<>>
        THEN [st EXCEPT !.current_translation = @ \o <<"\n">> \o line]
        ELSE [st EXCEPT !.current_translation = line]

RECURSIVE inline_parse_lines(_, _)
inline_parse_lines(lines, st) ==
    IF lines = <<>> THEN st
    ELSE inline_parse_lines(Tail(lines), inline_parse_line(st, Head(lines)))

inline_numbered_pass(translated_content) ==
    LET st == inline_parse_lines(split(translated_content), ParseStart)
    IN  IF st.current_translation # <<>>
        THEN Append(st.translations, strip(st.current_translation))
        ELSE st.translations

\* [line for line in translated_content.split("\n") if line.strip()]
RECURSIVE non_blank_lines(_)
non_blank_lines(lines) ==
    IF lines = <<>> THEN <<>>
    ELSE IF strip(Head(lines)) # <<>>
         THEN <<Head(lines)>> \o non_blank_lines(Tail(lines))
         ELSE non_blank_lines(Tail(lines))

\* mutant: no positional strategy, the original texts are kept
positional_fallback_M(translated_content, texts) == texts

\* the positional strategy used when the numbered pass miscounts
positional_fallback(translated_content, texts) ==
    LET translation_lines == non_blank_lines(split(translated_content))
    IN  [i \in 1..Len(texts) |->
            IF i <= Len(translation_lines)
            THEN LET clean_translation ==
                         strip_number_prefix(strip(translation_lines[i]))
                 IN  IF clean_translation # <<>> THEN clean_translation
                     ELSE texts[i]
            ELSE texts[i]]

\* while len(final_translations) < len(texts): final_translations.append(...)
RECURSIVE inline_pad(_, _)
inline_pad(final_translations, texts) ==
    IF Len(final_translations) < Len(texts)
    THEN inline_pad(Append(final_translations, texts[Len(final_translations) + 1]),
                    texts)
    ELSE final_translations

inline_parse(translated_content, texts) ==
    LET numbered == inline_numbered_pass(translated_content)
        translations == IF Len(numbered) # Len(texts)
                        THEN positional_fallback(translated_content, texts)
                        ELSE numbered
    IN  inline_pad(Take(translations, Len(texts)), texts)

(***************************************************************************)
(* State                                                                   *)
(***************************************************************************)
VARIABLES
    texts,               \* argument of translate_texts
    batch_size,          \* self.batch_size
    max_retries,         \* self.max_retries
    max_concurrent,      \* self.max_concurrent
    base_delay,          \* self.base_delay, in ticks
    max_delay,           \* self.max_delay, in ticks
    cache_dir,           \* the files of self.cache_dir: file name -> content
    cache_writable,      \* FALSE: writing a cache file raises IOError
    phase,               \* "idle", "running", "returned" or "raised"
    batch_groups,        \* the batches of the running translate_texts call
    sem_value,           \* free slots of the semaphore
    pc,                  \* per batch: "queued", "remote", "sleep", "done", "raised"
    attempt,             \* per batch: loop variable of translate_batch_with_retry
    delay,               \* per batch: <<argument of the asyncio.sleep it waits in>>
    cached_response,     \* per batch: what its latest cache read returned
    ret,                 \* per batch: the triple its task returned
    calls,               \* per batch: remote calls issued so far (history)
    last_outcome,        \* per batch: how its latest attempt ended (history)
    first_finished,      \* the batch whose task finished first, 0: none (history)
    translations,        \* first list returned by translate_batches_concurrent
    success_flags,       \* second list
    error_messages,      \* third list
    all_translations,    \* value returned by translate_texts
    progress_calls,      \* the calls of progress_callback, in order
    p_raw,               \* parser runs: the raw response
    p_texts,             \* parser runs: the original texts
    p_cached,            \* parser runs: outcome of _parse_gemini_response
    p_inline,            \* parser runs: outcome of the inline parser
    f_exists,            \* translate_file: input_file.exists()
    f_entries,           \* translate_file: what parse_srt_file returns for the input
    f_batch_size,        \* translate_file: argument batch_size
    f_output_path,       \* translate_file: argument output_path, or "None"
    f_pc,                \* translate_file: "idle", "start", "translating", "returned"
    f_batches,           \* translate_srt_entries: batches (lists of entries)
    f_results,           \* per batch: what translate_batch_with_retry returned
    f_remote_calls,      \* batches handed to the remote service (history)
    f_printed,           \* batch numbers printed as failed, in order
    f_written,           \* files written: path -> entries
    f_return,            \* value returned by translate_file
    d_fs,                \* translate_directory: the directory, file name -> content
    d_filter,            \* translate_directory: filter_language, "" for None
    d_pc,                \* "idle", "start", "loop", "translating", "returned"
    d_order,             \* srt_files, in the order glob gave them
    d_idx,               \* file_idx of the file in hand
    d_results,           \* results
    d_attempted,         \* files handed to translate_file, in order (history)
    d_remote,            \* files for which the remote service was called (history)
    s_entries,           \* SRT files: the entry list handed to write_srt_file
    s_content,           \* SRT files: the content of the file
    s_pc,                \* SRT files: "idle", "start" or "written"
    s_parsed,            \* what srt_parser.SRTParser.parse_srt_file returned
    s_parsed_tr,         \* what translator.SRTParser.parse_srt_file returned
    s_done,              \* the parsers that have read the file
    n_filename,          \* JellyfinParser: argument filename
    n_target,            \* JellyfinParser: argument target_language
    n_pc,                \* JellyfinParser: "idle", "start", "parsed", "formatted"
    n_parsed,            \* what parse_filename returned
    n_output,            \* what format_output_filename returned
    c_pc,                \* cache steps: per task, where it is in translate_batch
    c_attempt,           \* cache steps: per task, attempt of translate_batch_with_retry
    c_file,              \* cache steps: the file of the fingerprint
    c_writer,            \* cache steps: the task between open(.., "w") and the end of json.dump
    c_running            \* cache steps: the task the event loop is running, 0: none

configVars == <<texts, batch_size, max_retries, max_concurrent, base_delay,
                max_delay, cache_writable>>
taskVars == <<pc, attempt, delay, cached_response, ret, calls,
              last_outcome, first_finished>>
resultVars == <<translations, success_flags, error_messages, all_translations,
                progress_calls>>
runVars == <<cache_dir, phase, batch_groups, sem_value, taskVars, resultVars>>
parseVars == <<p_raw, p_texts, p_cached, p_inline>>
fileInputs == <<f_exists, f_entries, f_batch_size, f_output_path>>
fileVars == <<fileInputs, f_pc, f_batches, f_results, f_remote_calls, f_printed,
              f_written, f_return>>
dirVars == <<d_fs, d_filter, d_pc, d_order, d_idx, d_results, d_attempted,
             d_remote>>
srtVars == <<s_entries, s_content, s_pc, s_parsed, s_parsed_tr, s_done>>
nameVars == <<n_filename, n_target, n_pc, n_parsed, n_output>>
cacheVars == <<c_pc, c_attempt, c_file, c_writer, c_running>>
auxVars == <<fileVars, dirVars, srtVars, nameVars, cacheVars>>
vars == <<configVars, runVars, parseVars, auxVars>>

(***************************************************************************)
(* Inputs                                                                  *)
(***************************************************************************)
T1 == <<"p">>
T2 == <<"q">>
TextPool == {T1, T2}

TargetLanguage == "id"
SourceLanguage == "en"

\* UNION of the sequences over S of length 0..n
SeqUpTo(S, n) == UNION {[1..k -> S] : k \in 0..n}

\* text lists handed to translate_texts (the first text is T1: the other
\* lists are these with the two texts renamed)
TextLists == {s \in SeqUpTo(TextPool, MaxTexts) : s = <<>> \/ s[1] = T1}

R1 == <<"1", ".", " ", "x">>
R2 == <<"1", ".", "y", "\n", "2", ".", "z">>
\* response.text of a remote call that returns (<<>>: no response or no text)
ResponseTexts == {<<>>, <<" ">>, R1, R2}

\* what a remote call may raise: one exception per except clause of
\* translate_batch_with_retry, both of the clause that names two outcomes
RemoteErrors == {"ResourceExhausted", "PermissionDenied", "NotFound",
                 "ServiceUnavailable", "Exception"}

RemoteOutcomes ==
    [kind : {"text"}, text : ResponseTexts, exc : {"None"}]
    \cup [kind : {"raise"}, text : {<<>>}, exc : RemoteErrors]

NoMessage == <<>>
NoResult == [texts |-> <<>>, success |-> FALSE, error |-> <<"pending">>]
Unread == [status |-> "unread", value |-> <<>>]

\* how an attempt ended: not yet, with a cache hit on value text, with a
\* response of the remote call (text as received), or with an exception
NoOutcome == [kind |-> "None", exc |-> "None", text |-> <<>>]
Hit(value) == [kind |-> "hit", exc |-> "None", text |-> value]
Response(text) == [kind |-> "response", exc |-> "None", text |-> text]
Raised(exc) == [kind |-> "raise", exc |-> exc, text |-> <<>>]

(***************************************************************************)
(* Response cache                                                          *)
(***************************************************************************)
\* a digest of the canonical JSON of cache_data, modelled by its preimage
_get_cache_key(batch, target_language, source_language) ==
    [texts |-> batch, target_language |-> target_language,
     source_language |-> source_language]

\* cache_dir / f"{cache_key}.json"; the debug export uses cache_key + "_debug"
CacheFile(cache_key, suffix) == [cache_key |-> cache_key, suffix |-> suffix]

\* what a cache file may hold
Record(raw_response) == [kind |-> "record", raw_response |-> raw_response]
CorruptKinds == {"bad_json", "bad_bytes", "not_object", "no_raw_response"}
Corrupt(kind) == [kind |-> kind, raw_response |-> <<>>]

WriteFile(dir, name, content) ==
    [n \in (DOMAIN dir) \cup {name} |-> IF n = name THEN content ELSE dir[n]]

RemoveFile(dir, name) == [n \in (DOMAIN dir) \ {name} |-> dir[n]]

NoFiles == RemoveFile(<<>>, 0)

\* mutant: whatever the file holds is taken as unparseable and removed
_get_cached_response_M(dir, cache_key) ==
    [status |-> "none", value |-> <<>>, exc |-> "None",
     dir |-> RemoveFile(dir, CacheFile(cache_key, ""))]

\* result: what the call returns or raises; dir: the directory afterwards
_get_cached_response(dir, cache_key) ==
    LET cache_file == CacheFile(cache_key, "")
    IN  IF cache_file \notin DOMAIN dir
        THEN [status |-> "none", value |-> <<>>, exc |-> "None", dir |-> dir]
        ELSE CASE dir[cache_file].kind = "record" ->
                    [status |-> "value", value |-> dir[cache_file].raw_response,
                     exc |-> "None", dir |-> dir]
               [] dir[cache_file].kind = "no_raw_response" ->
                    [status |-> "none", value |-> <<>>, exc |-> "None", dir |-> dir]
               [] dir[cache_file].kind = "bad_json" ->
                    [status |-> "none", value |-> <<>>, exc |-> "None",
                     dir |-> RemoveFile(dir, cache_file)]
               [] dir[cache_file].kind = "bad_bytes" ->
                    [status |-> "raise", value |-> <<>>,
                     exc |-> "UnicodeDecodeError", dir |-> dir]
               [] dir[cache_file].kind = "not_object" ->
                    [status |-> "raise", value |-> <<>>,
                     exc |-> "AttributeError", dir |-> dir]

\* io_ok = FALSE: open() or the write raises IOError, which is swallowed.
\* The record's timestamp is not modelled.
_save_cached_response(dir, cache_file, raw_response, io_ok) ==
    IF io_ok THEN WriteFile(dir, cache_file, Record(raw_response)) ELSE dir

\* get_cache_info()["files"]
get_cache_info_files(dir) == Cardinality(DOMAIN dir)

\* mutant: the cached response is never used
is_cache_hit_M(rd) == FALSE

\* "if cached_response:" in translate_batch
is_cache_hit(rd) == rd.status = "value" /\ rd.value # <<>>

\* mutant: a response without text is not told apart
has_text_M(text) == TRUE

\* "if not response or not response.text" negated
has_text(text) == text # <<>>

(***************************************************************************)
(* translate_batch_with_retry and translate_batch, per batch               *)
(***************************************************************************)
Batches == 1..Len(batch_groups)

\* mutant: a last batch shorter than batch_size is left out
RECURSIVE split_batches_M(_, _)
split_batches_M(ts, size) ==
    IF Len(ts) < size THEN <<>>
    ELSE <<Take(ts, size)>> \o split_batches_M(Drop(ts, size), size)

\* batches = [texts[i : i + batch_size] for i in range(0, len(texts), batch_size)]
RECURSIVE split_batches(_, _)
split_batches(ts, size) ==
    IF ts = <<>> \/ size < 0 THEN <<>>
    ELSE <<Take(ts, size)>> \o split_batches(Drop(ts, size), size)

\* "\n".join(f"{i+1}. {text.strip()}" ...)
RECURSIVE numbered_texts(_, _)
numbered_texts(ts, i) ==
    IF ts = <<>> THEN <<>>
    ELSE (IF i > 1 THEN <<"\n">> ELSE <<>>)
         \o Decimal(i) \o <<".", " ">> \o strip(Head(ts))
         \o numbered_texts(Tail(ts), i + 1)

\* mutant: the final "except Exception" clause is missing
handler_of_M(exc) ==
    CASE exc = "ResourceExhausted" -> "rate_limit"
      [] exc \in {"PermissionDenied", "NotFound"} -> "non_retryable"
      [] exc \in {"InternalServerError", "ServiceUnavailable",
                  "DeadlineExceeded"} -> "transient"
      [] OTHER -> "uncaught"

\* Delays are floats of seconds in the code; the model counts them in ticks
\* of 1/TicksPerSecond second, which the floats of the bounds hold exactly.
TicksPerSecond == 2
\* GEMINI_BASE_DELAY "1.0" and GEMINI_MAX_DELAY "60.0"
DefaultBaseDelay == 1 * TicksPerSecond
DefaultMaxDelay == 60 * TicksPerSecond
\* random.uniform(0, 1) is 0 + (1 - 0) * random(), with random() in [0, 1)
Jitters == 0..(TicksPerSecond - 1)

\* which except clause of translate_batch_with_retry takes the exception
handler_of(exc) ==
    CASE exc = "ResourceExhausted" -> "rate_limit"
      [] exc \in {"PermissionDenied", "NotFound"} -> "non_retryable"
      [] exc \in {"InternalServerError", "ServiceUnavailable",
                  "DeadlineExceeded"} -> "transient"
      [] exc \in {"Exception", "UnicodeDecodeError", "AttributeError"} -> "unknown"
      [] OTHER -> "uncaught"

\* str(e), with the prefix the rate-limit clause adds
error_message(exc) ==
    IF handler_of(exc) = "rate_limit"
    THEN <<"Rate limit exceeded: ", exc>>
    ELSE <<exc>>

\* mutant: gives up one attempt early
retries_exhausted_M(a) == a >= max_retries - 1

\* "if attempt == self.max_retries"
retries_exhausted(a) == a = max_retries

\* mutant: permission-denied and not-found are retried like the others
returns_immediately_M(exc) == FALSE

\* the clause returns at once, without a backoff wait
returns_immediately(exc) == handler_of(exc) = "non_retryable"

\* The task of batch i returns result; outcome: how its last attempt ended.
\* The locals of the finished call are gone.
complete(i, result, outcome) ==
    /\ pc' = [pc EXCEPT ![i] = "done"]
    /\ ret' = [ret EXCEPT ![i] = result]
    /\ attempt' = [attempt EXCEPT ![i] = 0]
    /\ delay' = [delay EXCEPT ![i] = <<>>]
    /\ cached_response' = [cached_response EXCEPT ![i] = Unread]
    /\ last_outcome' = [last_outcome EXCEPT ![i] = outcome]
    /\ first_finished' = IF first_finished = 0 THEN i ELSE first_finished

\* batch i waits at a suspension point, in attempt a, having read cr
suspend(i, where, a, cr, outcome) ==
    /\ pc' = [pc EXCEPT ![i] = where]
    /\ attempt' = [attempt EXCEPT ![i] = a]
    /\ delay' = [delay EXCEPT ![i] = <<>>]
    /\ cached_response' = [cached_response EXCEPT ![i] = cr]
    /\ last_outcome' = [last_outcome EXCEPT ![i] = outcome]
    /\ UNCHANGED <<ret, first_finished>>

\* mutant: the wait is not capped
backoff_delay_M(clause, a, jitter) == base_delay * (2 ^ a) + jitter

\* "delay = min(self.base_delay * (2**attempt) + random.uniform(0, 1),
\* self.max_delay)", as each of the three retrying clauses computes it; the
\* last one is the "except Exception" clause
backoff_delay(clause, a, jitter) ==
    CASE clause = "rate_limit" -> Min(base_delay * (2 ^ a) + jitter, max_delay)
      [] clause = "transient" -> Min(base_delay * (2 ^ a) + jitter, max_delay)
      [] OTHER -> Min(base_delay * (2 ^ a) + jitter, max_delay)

\* "await asyncio.sleep(delay)": batch i waits after its failed attempt a
backoff_wait(i, a, cr, exc) ==
    \E jitter \in Jitters :
        /\ pc' = [pc EXCEPT ![i] = "sleep"]
        /\ attempt' = [attempt EXCEPT ![i] = a]
        /\ delay' = [delay EXCEPT ![i] = <<backoff_delay(handler_of(exc), a, jitter)>>]
        /\ cached_response' = [cached_response EXCEPT ![i] = cr]
        /\ last_outcome' = [last_outcome EXCEPT ![i] = Raised(exc)]
        /\ UNCHANGED <<ret, first_finished>>

\* the except clauses: attempt a of batch i raised exc.  last_error_message
\* is error_message(exc); the code reads it only in the return of the same
\* clause, so it is not kept as state.
handle_exception(i, a, exc, cr) ==
    IF handler_of(exc) = "uncaught"
    THEN suspend(i, "raised", a, cr, Raised(exc))
    ELSE IF returns_immediately(exc) \/ retries_exhausted(a)
    THEN complete(i, [texts |-> batch_groups[i], success |-> FALSE,
                      error |-> error_message(exc)], Raised(exc))
    ELSE backoff_wait(i, a, cr, exc)

\* attempt a of batch i, up to the remote call: the cache read, and on a
\* miss the debug export
start_attempt(i, a) ==
    LET batch == batch_groups[i]
        cache_key == _get_cache_key(batch, TargetLanguage, SourceLanguage)
        rd == _get_cached_response(cache_dir, cache_key)
        cr == [status |-> rd.status, value |-> rd.value]
    IN  IF rd.status = "raise"
        THEN /\ cache_dir' = rd.dir
             /\ handle_exception(i, a, rd.exc, cr)
             /\ UNCHANGED calls
        ELSE IF is_cache_hit(cr)
        THEN /\ cache_dir' = rd.dir
             /\ complete(i, [texts |-> _parse_gemini_response(rd.value, batch),
                             success |-> TRUE, error |-> NoMessage], Hit(rd.value))
             /\ UNCHANGED calls
        ELSE /\ cache_dir' = _save_cached_response(
                                 rd.dir, CacheFile(cache_key, "_debug"),
                                 numbered_texts(batch, 1), cache_writable)
             /\ suspend(i, "remote", a, cr, NoOutcome)
             /\ calls' = [calls EXCEPT ![i] = @ + 1]

\* mutant: the semaphore never blocks
semaphore_free_M == TRUE

\* "async with semaphore" can be entered
semaphore_free == sem_value > 0

\* mutant: the slot is given back for the time of a backoff wait as well
released_M(i) == pc'[i] \in {"done", "raised", "sleep"}

\* the slot is given back when the task ends
released(i) == pc'[i] \in {"done", "raised"}

\* batch i enters the semaphore and runs up to its first suspension point
acquire(i) ==
    /\ phase = "running"
    /\ pc[i] = "queued"
    /\ \A j \in Batches : j < i => pc[j] # "queued"
    /\ semaphore_free
    /\ IF batch_groups[i] = <<>>
       THEN /\ complete(i, [texts |-> <<>>, success |-> TRUE, error |-> NoMessage],
                        NoOutcome)
            /\ UNCHANGED <<cache_dir, calls>>
       ELSE IF max_retries + 1 <= 0
       THEN /\ complete(i, [texts |-> batch_groups[i], success |-> FALSE,
                            error |-> <<"Translation failed">>], NoOutcome)
            /\ UNCHANGED <<cache_dir, calls>>
       ELSE start_attempt(i, 0)
    /\ sem_value' = IF released(i) THEN sem_value ELSE sem_value - 1
    /\ UNCHANGED <<configVars, phase, batch_groups, resultVars, parseVars, auxVars>>

\* mutant: a call without response text counts as a failed batch
no_response_result_M(batch) ==
    [texts |-> batch, success |-> FALSE, error |-> <<"No response">>]

\* "return texts  # Return original if no response", which
\* translate_batch_with_retry hands on as (result, True, None)
no_response_result(batch) == [texts |-> batch, success |-> TRUE, error |-> NoMessage]

\* the remote call of batch i returns or raises
remote_returns(i) ==
    /\ phase = "running"
    /\ pc[i] = "remote"
    /\ \E outcome \in RemoteOutcomes :
         LET batch == batch_groups[i]
             cache_key == _get_cache_key(batch, TargetLanguage, SourceLanguage)
             raw_response == strip(outcome.text)
         IN  IF outcome.kind = "raise"
             THEN /\ handle_exception(i, attempt[i], outcome.exc, cached_response[i])
                  /\ UNCHANGED cache_dir
             ELSE IF ~has_text(outcome.text)
             THEN /\ complete(i, no_response_result(batch), Response(outcome.text))
                  /\ UNCHANGED cache_dir
             ELSE /\ cache_dir' = _save_cached_response(
                                      cache_dir, CacheFile(cache_key, ""),
                                      raw_response, cache_writable)
                  /\ complete(i, [texts |-> _parse_gemini_response(
                                                raw_response, batch),
                                  success |-> TRUE, error |-> NoMessage],
                              Response(outcome.text))
    /\ sem_value' = IF released(i) THEN sem_value + 1 ELSE sem_value
    /\ UNCHANGED <<configVars, phase, batch_groups, calls, resultVars, parseVars, auxVars>>

\* the backoff wait of batch i is over: the next attempt starts
wake_up(i) ==
    /\ phase = "running"
    /\ pc[i] = "sleep"
    /\ start_attempt(i, attempt[i] + 1)
    /\ sem_value' = IF released(i) THEN sem_value + 1 ELSE sem_value
    /\ UNCHANGED <<configVars, phase, batch_groups, resultVars, parseVars, auxVars>>

(***************************************************************************)
(* translate_texts and translate_batches_concurrent                        *)
(***************************************************************************)
\* mutant: the result of the task that finished first is collected first
gather_results_M ==
    [i \in Batches |->
        IF first_finished = 0 THEN ret[i]
        ELSE IF i = 1 THEN ret[first_finished]
        ELSE IF i <= first_finished THEN ret[i - 1]
        ELSE ret[i]]

\* asyncio.gather: the results in the order of the awaitables
gather_results == [i \in Batches |-> ret[i]]

RECURSIVE extend_all(_)
extend_all(lists) ==
    IF lists = <<>> THEN <<>>
    ELSE Head(lists) \o extend_all(Tail(lists))

\* mutant: the callback is called for the translated batches only
progress_callbacks_M(flags) ==
    LET RECURSIVE go(_, _)
        go(i, done) ==
            IF i > Len(flags) THEN <<>>
            ELSE IF flags[i] THEN <<<<done + 1, Len(flags)>>>> \o go(i + 1, done + 1)
            ELSE go(i + 1, done)
    IN  go(1, 0)

\* the result loop of translate_all_batches calls
\* progress_callback(batch_idx + 1, total_batches) for each batch
progress_callbacks(flags) == [i \in 1..Len(flags) |-> <<i, Len(flags)>>]

\* range(0, len(texts), 0) raises ValueError
range_raises(step) == step = 0

\* asyncio.Semaphore(value) raises ValueError for a negative value
semaphore_raises(value) == value < 0

\* translate_texts splits the texts and creates one task per batch; no task
\* is created when the range or the semaphore raises
translate_texts ==
    /\ phase = "idle"
    /\ LET raises == texts # <<>>
                      /\ (range_raises(batch_size) \/ semaphore_raises(max_concurrent))
           batches == IF raises THEN <<>> ELSE split_batches(texts, batch_size)
       IN  /\ phase' = IF texts = <<>> THEN "returned"
                       ELSE IF raises THEN "raised"
                       ELSE "running"
           /\ batch_groups' = batches
           /\ sem_value' = max_concurrent
           /\ pc' = [i \in 1..Len(batches) |-> "queued"]
           /\ attempt' = [i \in 1..Len(batches) |-> 0]
           /\ delay' = [i \in 1..Len(batches) |-> <<>>]
           /\ cached_response' = [i \in 1..Len(batches) |-> Unread]
           /\ ret' = [i \in 1..Len(batches) |-> NoResult]
           /\ calls' = [i \in 1..Len(batches) |-> 0]
           /\ last_outcome' = [i \in 1..Len(batches) |-> NoOutcome]
    /\ first_finished' = 0
    /\ translations' = <<>>
    /\ success_flags' = <<>>
    /\ error_messages' = <<>>
    /\ all_translations' = <<>>
    /\ progress_calls' = <<>>
    /\ UNCHANGED <<configVars, cache_dir, parseVars, auxVars>>

\* asyncio.gather returns (or raises the exception of a task); the result
\* loops of translate_batches_concurrent and translate_texts run.  Every
\* task result is a triple, so the loop never takes its fallback branch.
gather ==
    /\ phase = "running"
    /\ IF \E i \in Batches : pc[i] = "raised"
       THEN /\ phase' = "raised"
            /\ UNCHANGED resultVars
       ELSE /\ \A i \in Batches : pc[i] = "done"
            /\ phase' = "returned"
            /\ translations' = [i \in Batches |-> gather_results[i].texts]
            /\ success_flags' = [i \in Batches |-> gather_results[i].success]
            /\ error_messages' = [i \in Batches |-> gather_results[i].error]
            /\ all_translations' = extend_all(translations')
            /\ progress_calls' = progress_callbacks(success_flags')
    /\ UNCHANGED <<configVars, cache_dir, batch_groups, sem_value, taskVars,
                   parseVars, auxVars>>

\* clear_cache, while no translate_texts call is running
clear_cache ==
    /\ phase # "running"
    /\ get_cache_info_files(cache_dir) # 0
    /\ cache_dir' = NoFiles
    /\ UNCHANGED <<configVars, phase, batch_groups, sem_value, taskVars,
                   resultVars, parseVars, auxVars>>

(***************************************************************************)
(* The parsers applied to one response                                     *)
(***************************************************************************)
Unset == [status |-> "unset", value |-> <<>>]

\* original texts "t1", "t2", ...
ParseTexts(n) == [i \in 1..n |-> <<"t", DigitChar[i + 1]>>]

parse_cached ==
    /\ p_cached = Unset
    /\ p_cached' = [status |-> "returned",
                    value |-> _parse_gemini_response(p_raw, p_texts)]
    /\ UNCHANGED <<configVars, runVars, p_raw, p_texts, p_inline, auxVars>>

\* translator.py: an empty response text raises before the parser runs
parse_inline ==
    /\ p_inline = Unset
    /\ p_inline' = IF ~has_text(p_raw)
                   THEN [status |-> "raised", value |-> <<>>]
                   ELSE [status |-> "returned",
                         value |-> inline_parse(strip(p_raw), p_texts)]
    /\ UNCHANGED <<configVars, runVars, p_raw, p_texts, p_cached, auxVars>>

(***************************************************************************)
(* File names (translator.py, JellyfinFormatter).  A file name is its stem, *)
(* split at the dots, and its extension.                                   *)
(***************************************************************************)
FileName(stem, extension) == [stem |-> stem, extension |-> extension]

\* the language codes JellyfinFormatter.parse_filename recognises
FormatterLanguages ==
    {"en", "id", "es", "fr", "de", "it", "pt", "ru", "ja", "ko", "zh", "ar",
     "hi", "th", "vi", "nl", "sv", "da", "no", "fi", "pl", "tr"}

\* name.endswith("." + a + "." + b), name.endswith("." + b)
ends_with2(parts, a, b) ==
    Len(parts) >= 3 /\ parts[Len(parts) - 1] = a /\ parts[Len(parts)] = b
ends_with1(parts, b) == Len(parts) >= 2 /\ parts[Len(parts)] = b

\* base is kept split at its dots; "" stands for no sdh and no language
JellyfinFormatter_parse_filename(filename) ==
    LET parts == filename.stem
        n == Len(parts)
        result(base, sdh, language) ==
            [base |-> base, sdh |-> sdh, language |-> language,
             extension |-> filename.extension]
    IN  IF ends_with2(parts, "sdh", "en") THEN result(Take(parts, n - 2), "sdh", "en")
        ELSE IF ends_with2(parts, "sdh", "id") THEN result(Take(parts, n - 2), "sdh", "id")
        ELSE IF ends_with1(parts, "en") THEN result(Take(parts, n - 1), "", "en")
        ELSE IF ends_with1(parts, "id") THEN result(Take(parts, n - 1), "", "id")
        ELSE IF n >= 2 /\ parts[n] \in FormatterLanguages
        THEN IF n >= 3 /\ parts[n - 1] = "sdh"
             THEN result(Take(parts, n - 2), "sdh", parts[n])
             ELSE result(Take(parts, n - 1), "", parts[n])
        ELSE result(parts, "", "")

JellyfinFormatter_format_output_filename(input_filename, target_language) ==
    LET parsed == JellyfinFormatter_parse_filename(input_filename)
        parts == parsed.base
                 \o (IF parsed.sdh # "" THEN <<"sdh">> ELSE <<>>)
                 \o <<target_language>>
    IN  FileName(parts, parsed.extension)

(***************************************************************************)
(* translate_srt_entries and translate_file (translator.py)                *)
(***************************************************************************)
\* a subtitle text, and what the remote service makes of it
Text(i) == [id |-> i, lang |-> "source"]
Translate(text) == [text EXCEPT !.lang = "target"]
None == [id |-> 0, lang |-> "None"]

SRTEntry(index, start_time, end_time, text) ==
    [index |-> index, start_time |-> start_time, end_time |-> end_time,
     text |-> text]

\* the entries of an input file: cue i runs from second 2i to second 2i + 1
EntryList(n) == [i \in 1..n |-> SRTEntry(i, 2 * i, 2 * i + 1, Text(i))]

InputName == FileName(<<"Show", "en">>, ".srt")
ExplicitOutput == FileName(<<"out">>, ".srt")
NoPath == FileName(<<>>, "")

NoReturn == [total_entries |-> -1, translated_entries |-> -1,
             output_filename |-> NoPath]
NothingDone == [total_entries |-> 0, translated_entries |-> 0,
                output_filename |-> NoPath]
NoBatchResult == [texts |-> <<>>, success |-> FALSE, pending |-> TRUE]

entry_texts(batch_entries) ==
    [j \in 1..Len(batch_entries) |-> batch_entries[j].text]

\* what translate_batch_with_retry returns for a batch: the parsed response,
\* or the original texts after the last failed attempt
BatchResults(batch_texts) ==
    {[texts |-> [j \in 1..Len(batch_texts) |-> Translate(batch_texts[j])],
      success |-> TRUE, pending |-> FALSE],
     [texts |-> batch_texts, success |-> FALSE, pending |-> FALSE]}

\* mutant: the batches overlap by one entry
RECURSIVE entry_batches_M(_, _)
entry_batches_M(entries, size) ==
    IF Len(entries) <= size THEN
        IF entries = <<>> THEN <<>> ELSE <<entries>>
    ELSE <<Take(entries, size + 1)>> \o entry_batches_M(Drop(entries, size), size)

\* entries[batch_idx : batch_idx + batch_size] for batch_idx in steps of batch_size
RECURSIVE entry_batches(_, _)
entry_batches(entries, size) ==
    IF entries = <<>> THEN <<>>
    ELSE <<Take(entries, size)>> \o entry_batches(Drop(entries, size), size)

\* while len(translated_texts) < len(batch_entries): append the original text
RECURSIVE pad_translated(_, _)
pad_translated(translated_texts, batch_entries) ==
    IF Len(translated_texts) < Len(batch_entries)
    THEN pad_translated(
             Append(translated_texts, batch_entries[Len(translated_texts) + 1].text),
             batch_entries)
    ELSE translated_texts

\* mutant: a failed batch is left out of the output
translated_batch_M(batch_entries, result) ==
    IF result.success
    THEN [j \in 1..Len(batch_entries) |->
             [batch_entries[j] EXCEPT !.text = result.texts[j]]]
    ELSE <<>>

\* the body of the result loop for one batch: the entries it appends
translated_batch(batch_entries, result) ==
    LET given == IF result.texts = <<>> THEN entry_texts(batch_entries)
                 ELSE result.texts
        translated_texts == pad_translated(given, batch_entries)
    IN  [j \in 1..Len(batch_entries) |->
            SRTEntry(batch_entries[j].index,
                     batch_entries[j].start_time,
                     batch_entries[j].end_time,
                     IF j <= Len(translated_texts) /\ translated_texts[j] # None
                     THEN translated_texts[j]
                     ELSE batch_entries[j].text)]

RECURSIVE translated_entries(_, _)
translated_entries(batches, results) ==
    IF batches = <<>> THEN <<>>
    ELSE translated_batch(Head(batches), Head(results))
         \o translated_entries(Tail(batches), Tail(results))

\* print(f"Batch {batch_idx + 1}/{total_batches} failed - using original text")
printed_failures(results) ==
    LET RECURSIVE go(_)
        go(i) == IF i > Len(results) THEN <<>>
                 ELSE (IF results[i].success THEN <<>> ELSE <<i>>) \o go(i + 1)
    IN  go(1)

\* "if not input_file.exists()"
input_missing(exists) == ~exists

\* translate_file up to the call of the batch client
tf_begin ==
    /\ f_pc = "start"
    /\ IF input_missing(f_exists) \/ f_entries = <<>>
       THEN /\ f_pc' = "returned"
            /\ f_return' = NothingDone
            /\ UNCHANGED f_batches
       ELSE /\ f_pc' = "translating"
            /\ f_batches' = entry_batches(f_entries, f_batch_size)
            /\ UNCHANGED f_return
    /\ f_results' = [i \in 1..Len(f_batches') |-> NoBatchResult]
    /\ UNCHANGED <<fileInputs, f_remote_calls, f_printed, f_written>>

\* the task of batch i ends
tf_batch(i) ==
    /\ f_pc = "translating"
    /\ f_results[i].pending
    /\ \E result \in BatchResults(entry_texts(f_batches[i])) :
          f_results' = [f_results EXCEPT ![i] = result]
    /\ f_remote_calls' = f_remote_calls + 1
    /\ UNCHANGED <<fileInputs, f_pc, f_batches, f_printed, f_written, f_return>>

\* asyncio.run returns: the result loop, the write and the return
tf_finish ==
    /\ f_pc = "translating"
    /\ \A i \in 1..Len(f_results) : ~f_results[i].pending
    /\ LET out == translated_entries(f_batches, f_results)
           translated == IF out = <<>> THEN f_entries ELSE out
           output_filename ==
               IF f_output_path = NoPath
               THEN JellyfinFormatter_format_output_filename(InputName, TargetLanguage)
               ELSE f_output_path
       IN  /\ f_written' = WriteFile(f_written, output_filename, translated)
           /\ f_return' = [total_entries |-> Len(f_entries),
                           translated_entries |-> Len(translated),
                           output_filename |-> output_filename]
    /\ f_printed' = printed_failures(f_results)
    /\ f_pc' = "returned"
    /\ UNCHANGED <<fileInputs, f_batches, f_results, f_remote_calls>>

\* no translate_file call
IdleFile ==
    /\ f_exists = FALSE
    /\ f_entries = <<>>
    /\ f_batch_size = 1
    /\ f_output_path = NoPath
    /\ f_pc = "idle"
    /\ f_batches = <<>>
    /\ f_results = <<>>
    /\ f_remote_calls = 0
    /\ f_printed = <<>>
    /\ f_written = NoFiles
    /\ f_return = NoReturn

(***************************************************************************)
(* translate_directory (translator.py)                                     *)
(***************************************************************************)
\* what a file holds: "subtitles" (parse_srt_file returns entries), "nothing"
\* (it returns none) or "translated" (written by this pass)
FileKinds == {"subtitles", "nothing"}

PoolNames ==
    {FileName(<<"Show", "en">>, ".srt"), FileName(<<"Show", "fr">>, ".srt"),
     FileName(<<"Show", "id">>, ".srt"), FileName(<<"Show">>, ".srt"),
     FileName(<<"Other", "sdh", "en">>, ".srt"),
     FileName(<<"Show", "en">>, ".vtt")}

FilterLanguages == {"", "en", "fr"}

Directories(max) ==
    UNION {[names -> FileKinds] :
              names \in {S \in SUBSET PoolNames : Cardinality(S) <= max}}

Orders(S) ==
    {o \in [1..Cardinality(S) -> S] :
        \A i, j \in 1..Cardinality(S) : i # j => o[i] # o[j]}

\* directory.glob("*.srt")
glob_srt(dir) == {name \in DOMAIN dir : name.extension = ".srt"}

\* mutant: an existing output file is overwritten
skips_file_M(language, target_language, filter_language, output_exists) ==
    \/ language = target_language
    \/ (filter_language # "" /\ language # filter_language)

\* the three "continue" tests of the loop body
skips_file(language, target_language, filter_language, output_exists) ==
    \/ language = target_language
    \/ (filter_language # "" /\ language # filter_language)
    \/ output_exists

\* mutant: the pass ends at the first file that was not translated
next_file_M(file_idx, translated) ==
    IF translated > 0 THEN file_idx + 1 ELSE Len(d_order) + 1

\* the loop goes on to the next file, whatever happened to this one
next_file(file_idx, translated) == file_idx + 1

\* "if translated_entries > 0: results.append(...)"
append_result(results, input, output, translated) ==
    IF translated > 0
    THEN Append(results, [input_file |-> input, output_file |-> output,
                          entry_count |-> translated])
    ELSE results

\* the entries translate_file finds in a file of the directory
entries_of(kind) == IF kind = "subtitles" THEN EntryList(1) ELSE <<>>

\* translate_directory up to the loop
td_start ==
    /\ d_pc = "start"
    /\ \E o \in Orders(glob_srt(d_fs)) : d_order' = o
    /\ d_idx' = 1
    /\ d_pc' = "loop"
    /\ UNCHANGED <<d_fs, d_filter, d_results, d_attempted, d_remote>>

\* the loop body up to the call of translate_file
td_check ==
    /\ d_pc = "loop"
    /\ d_idx <= Len(d_order)
    /\ LET srt_file == d_order[d_idx]
           parsed == JellyfinFormatter_parse_filename(srt_file)
           output == JellyfinFormatter_format_output_filename(srt_file, TargetLanguage)
       IN  IF skips_file(parsed.language, TargetLanguage, d_filter,
                         output \in DOMAIN d_fs)
           THEN /\ d_idx' = d_idx + 1
                /\ UNCHANGED <<d_pc, d_attempted>>
           ELSE /\ d_pc' = "translating"
                /\ d_attempted' = Append(d_attempted, srt_file)
                /\ UNCHANGED d_idx
    /\ UNCHANGED <<d_fs, d_filter, d_order, d_results, d_remote>>

\* translate_file returns for the file in hand: the rest of the loop body
td_translate ==
    /\ d_pc = "translating"
    /\ LET srt_file == d_order[d_idx]
           output == JellyfinFormatter_format_output_filename(srt_file, TargetLanguage)
           entries == entries_of(d_fs[srt_file])
           translated == Len(entries)
       IN  /\ IF entries = <<>>
              THEN UNCHANGED <<d_fs, d_remote>>
              ELSE /\ d_fs' = WriteFile(d_fs, output, "translated")
                   /\ d_remote' = d_remote \cup {srt_file}
           /\ d_results' = append_result(d_results, srt_file, output, translated)
           /\ d_idx' = next_file(d_idx, translated)
    /\ d_pc' = "loop"
    /\ UNCHANGED <<d_filter, d_order, d_attempted>>

\* the loop is over
td_return ==
    /\ d_pc = "loop"
    /\ d_idx > Len(d_order)
    /\ d_pc' = "returned"
    /\ UNCHANGED <<d_fs, d_filter, d_order, d_idx, d_results, d_attempted, d_remote>>

\* no translate_directory call
IdleDir ==
    /\ d_fs = NoFiles
    /\ d_filter = ""
    /\ d_pc = "idle"
    /\ d_order = <<>>
    /\ d_idx = 0
    /\ d_results = <<>>
    /\ d_attempted = <<>>
    /\ d_remote = {}

(***************************************************************************)
(* SRT files (srt_parser.py, and the SRTParser of translator.py).  A file  *)
(* is written and read as text on a system whose line separator is "\n",  *)
(* so its content is the string that was written.                          *)
(***************************************************************************)
\* "00:00:0s,000" for a second s < 10
Timestamp(s) ==
    <<"0", "0", ":", "0", "0", ":", "0", DigitChar[s + 1], ",", "0", "0", "0">>

Arrow == <<"-", "-", ">">>

\* the cue texts the entries are built from
SrtTexts ==
    { <<"a">>,                                  \* one line
      <<"a", "\n", "b">>,                       \* two lines
      <<"a", "\n", "\n", "b">>,                 \* a blank line inside
      <<"a", "\n", "\n", "2", "\n", "b">>,      \* a blank line, then a number
      <<" ", "a">>,                             \* leading white space
      <<>> }                                    \* no text

SrtIndices == {1, 2, 10}

\* the entry lists of n entries; entry k starts at second k
RECURSIVE SrtEntryLists(_)
SrtEntryLists(n) ==
    IF n = 0 THEN {<<>>}
    ELSE { Append(es, SRTEntry(i, Timestamp(n), Timestamp(n + 1), t)) :
             es \in SrtEntryLists(n - 1), i \in SrtIndices, t \in SrtTexts }

\* SRTParser.write_srt_file: the content of the file it leaves
RECURSIVE write_srt_file(_)
write_srt_file(entries) ==
    IF entries = <<>> THEN <<>>
    ELSE LET entry == Head(entries)
         IN  Decimal(entry.index) \o <<"\n">>
             \o entry.start_time \o <<" ">> \o Arrow \o <<" ">>
             \o entry.end_time \o <<"\n">>
             \o entry.text \o <<"\n", "\n">>
             \o write_srt_file(Tail(entries))

\* s cut at the separators seps, a set of disjoint intervals <<first, last>>
\* of positions of s: the pieces between them, in order
CutAt(s, seps) ==
    LET n == Cardinality(seps)
        nth(i) == CHOOSE x \in seps : Cardinality({y \in seps : y[1] < x[1]}) = i - 1
        first(i) == IF i = 1 THEN 1 ELSE nth(i - 1)[2] + 1
        last(i) == IF i = n + 1 THEN Len(s) ELSE nth(i)[1] - 1
    IN  [i \in 1..(n + 1) |-> SubSeq(s, first(i), last(i))]

\* sep.join(pieces)
RECURSIVE join(_, _)
join(sep, pieces) ==
    IF pieces = <<>> THEN <<>>
    ELSE IF Len(pieces) = 1 THEN pieces[1]
    ELSE pieces[1] \o sep \o join(sep, Tail(pieces))

\* str.split("\n") of a block
split_lines(s) == CutAt(s, {<<k, k>> : k \in {i \in 1..Len(s) : s[i] = "\n"}})

\* content.replace("\r\n", "\n")
replace_crlf(s) ==
    LET crlf == {k \in 1..(Len(s) - 1) : s[k] = "\r" /\ s[k + 1] = "\n"}
    IN  join(<<"\n">>, CutAt(s, {<<k, k + 1>> : k \in crlf}))

RECURSIVE LeadingNewlines(_)
LeadingNewlines(s) ==
    IF s = <<>> THEN 0
    ELSE IF Head(s) = "\n" THEN 1 + LeadingNewlines(Tail(s)) ELSE 0

RECURSIVE LeadingWhitespace(_)
LeadingWhitespace(s) ==
    IF s = <<>> THEN 0
    ELSE IF Head(s) \in Whitespace THEN 1 + LeadingWhitespace(Tail(s)) ELSE 0

\* does \d+\s*\n match at the start of s
index_line_ahead(s) ==
    LET d == LeadingDigits(s)
        rest == Drop(s, d)
        w == LeadingWhitespace(rest)
    IN  d >= 1 /\ \E k \in 1..w : rest[k] = "\n"

\* the matches of \n{2,}(?=\d+\s*\n) in s: the runs of two or more line
\* breaks, taken whole, that an index line follows
index_separators(s) ==
    LET starts == {p \in 1..Len(s) : s[p] = "\n" /\ (p = 1 \/ s[p - 1] # "\n")}
        last(p) == p + LeadingNewlines(Drop(s, p - 1)) - 1
    IN  {<<p, last(p)>> : p \in {r \in starts :
                                  last(r) > r /\ index_line_ahead(Drop(s, last(r)))}}

\* re.split(r"\n{2,}(?=\d+\s*\n)", s)
split_before_index(s) == CutAt(s, index_separators(s))

\* the matches of \n\s*\n in s: in each run of white space with two or more
\* line breaks, from the first of them to the last
blank_separators(s) ==
    LET starts == {p \in 1..Len(s) :
                      s[p] \in Whitespace /\ (p = 1 \/ s[p - 1] \notin Whitespace)}
        breaks(p) == {k \in p..(p + LeadingWhitespace(Drop(s, p - 1)) - 1) : s[k] = "\n"}
        lowest(S) == CHOOSE k \in S : \A j \in S : k <= j
        highest(S) == CHOOSE k \in S : \A j \in S : j <= k
    IN  {<<lowest(breaks(p)), highest(breaks(p))>> :
            p \in {r \in starts : Cardinality(breaks(r)) >= 2}}

\* re.split(r"\n\s*\n", s)
split_at_blank_lines(s) == CutAt(s, blank_separators(s))

RECURSIVE DigitsValue(_)
DigitsValue(s) ==
    IF s = <<>> THEN 0
    ELSE 10 * DigitsValue(SubSeq(s, 1, Len(s) - 1))
         + (CHOOSE d \in 0..9 : DigitChar[d + 1] = s[Len(s)])

\* int(s): white space around the number and a sign are accepted
int(s) ==
    LET t == strip(s)
        signed == t # <<>> /\ Head(t) \in {"+", "-"}
        digits == IF signed THEN Tail(t) ELSE t
    IN  IF digits # <<>> /\ \A k \in 1..Len(digits) : digits[k] \in Digits
        THEN [ok |-> TRUE,
              value |-> IF signed /\ Head(t) = "-" THEN 0 - DigitsValue(digits)
                        ELSE DigitsValue(digits)]
        ELSE [ok |-> FALSE, value |-> 0]

\* does \d{2}:\d{2}:\d{2}[,.]\d{3} match at the start of s
timestamp_ahead(s, separators) ==
    /\ Len(s) >= 12
    /\ \A k \in {1, 2, 4, 5, 7, 8, 10, 11, 12} : s[k] \in Digits
    /\ s[3] = ":" /\ s[6] = ":"
    /\ s[9] \in separators

\* re.match(r"(<timestamp>)\s*-->\s*(<timestamp>)", line)
time_match(line, separators) ==
    LET after_start == lstrip(Drop(line, 12))
        after_arrow == lstrip(Drop(after_start, 3))
    IN  IF /\ timestamp_ahead(line, separators)
           /\ StartsWith(after_start, Arrow)
           /\ timestamp_ahead(after_arrow, separators)
        THEN [matched |-> TRUE, group1 |-> Take(line, 12),
              group2 |-> Take(after_arrow, 12)]
        ELSE [matched |-> FALSE, group1 |-> <<>>, group2 |-> <<>>]

\* time.replace(".", ",") of a matched timestamp
comma_time(time) == [time EXCEPT ![9] = ","]

\* the loop body of parse_srt_file: the entries one block gives, none or one
parse_block(block, separators) ==
    LET lines == split_lines(strip(block))
        index == int(lines[1])
        time == time_match(lines[2], separators)
    IN  IF strip(block) = <<>> \/ Len(lines) < 3 THEN <<>>
        ELSE IF ~index.ok \/ ~time.matched THEN <<>>
        ELSE << SRTEntry(index.value, comma_time(time.group1),
                         comma_time(time.group2),
                         strip(join(<<"\n">>, Drop(lines, 2)))) >>

RECURSIVE parse_blocks(_, _)
parse_blocks(blocks, separators) ==
    IF blocks = <<>> THEN <<>>
    ELSE parse_block(Head(blocks), separators)
         \o parse_blocks(Tail(blocks), separators)

\* the blocks srt_parser.SRTParser.parse_srt_file cuts the content into
srt_blocks_M(normalized_content) == split_at_blank_lines(normalized_content)

srt_blocks(normalized_content) == split_before_index(normalized_content)

\* srt_parser.SRTParser.parse_srt_file, on the content of the file
srt_parser_parse_srt_file(content) ==
    IF content = <<>> THEN <<>>
    ELSE parse_blocks(srt_blocks(strip(replace_crlf(content))), {",", "."})

\* translator.SRTParser.parse_srt_file, on the content of the file
translator_parse_srt_file(content) ==
    parse_blocks(split_at_blank_lines(strip(content)), {","})

\* write_srt_file(entries, path)
srt_write ==
    /\ s_pc = "start"
    /\ s_content' = write_srt_file(s_entries)
    /\ s_pc' = "written"
    /\ UNCHANGED <<s_entries, s_parsed, s_parsed_tr, s_done>>

\* srt_parser.SRTParser.parse_srt_file(path)
srt_parse ==
    /\ s_pc = "written"
    /\ "srt_parser" \notin s_done
    /\ s_parsed' = srt_parser_parse_srt_file(s_content)
    /\ s_done' = s_done \cup {"srt_parser"}
    /\ UNCHANGED <<s_entries, s_content, s_pc, s_parsed_tr>>

\* translator.SRTParser.parse_srt_file(path)
tr_parse ==
    /\ s_pc = "written"
    /\ "translator" \notin s_done
    /\ s_parsed_tr' = translator_parse_srt_file(s_content)
    /\ s_done' = s_done \cup {"translator"}
    /\ UNCHANGED <<s_entries, s_content, s_pc, s_parsed>>

\* no SRT file is written or read
IdleSrt ==
    /\ s_entries = <<>>
    /\ s_content = <<>>
    /\ s_pc = "idle"
    /\ s_parsed = <<>>
    /\ s_parsed_tr = <<>>
    /\ s_done = {}

(***************************************************************************)
(* JellyfinParser (jellyfin_parser.py).  A file name is the sequence of    *)
(* the pieces between its dots: "Show.en.srt" is <<"Show", "en", "srt">>.  *)
(***************************************************************************)
MODIFIERS == {"sdh", "forced", "cc", "hi"}

\* stands for None in a field that holds one segment; no file name of the
\* model has a segment of this name
NoneSegment == "None"

\* the pieces the file names are built from
NamePieces == {"Show", "2", "en", "forced", "srt", ""}

RECURSIVE NamesOfLength(_)
NamesOfLength(n) ==
    IF n = 0 THEN {<<>>}
    ELSE {Append(name, piece) : name \in NamesOfLength(n - 1), piece \in NamePieces}

\* the file names of at most max pieces; "", "." and ".." name no file
Filenames(max) ==
    UNION {NamesOfLength(n) : n \in 1..max}
        \ {<<"">>, <<"", "">>, <<"", "", "">>}

\* codes of GeminiTranslator.LANGUAGES: the default target language, and the
\* code that is a modifier token as well
TargetLanguages == {"id", "hi"}

\* Path(filename).suffix is not empty: the last dot is neither the first
\* nor the last character of the name
has_suffix(filename) ==
    LET n == Len(filename)
    IN  /\ n >= 2
        /\ filename[n] # ""
        /\ ~(n = 2 /\ filename[1] = "")

\* Path(filename).suffix without its dot, as a list of no or one piece
path_suffix(filename) ==
    IF has_suffix(filename) THEN <<filename[Len(filename)]>> ELSE <<>>

\* Path(filename).stem.split(".")
stem_parts(filename) ==
    IF has_suffix(filename) THEN Take(filename, Len(filename) - 1) ELSE filename

\* JellyfinParser.parse_filename; name is kept split at its dots, <<>> is None
JellyfinParser_parse_filename(filename) ==
    LET parts == stem_parts(filename)
        part_count == Len(parts)
        result(name, track, language, modifier) ==
            [name |-> name, track |-> track, language |-> language,
             modifier |-> modifier, extension |-> path_suffix(filename)]
        language_index == part_count - 3
    IN  IF part_count < 2
        THEN result(<<parts[1]>>, NoneSegment, NoneSegment, NoneSegment)
        ELSE IF part_count = 2
        THEN result(<<parts[1]>>, NoneSegment, parts[2], NoneSegment)
        ELSE IF part_count = 3
        THEN IF parts[3] \in MODIFIERS
             THEN result(<<parts[1]>>, NoneSegment, parts[2], parts[3])
             ELSE result(<<parts[1]>>, parts[2], parts[3], NoneSegment)
        ELSE IF part_count = 4
        THEN result(<<parts[1]>>, parts[2], parts[3], parts[4])
        ELSE result(Take(parts, language_index - 1), parts[language_index],
                    parts[language_index + 1], parts[language_index + 2])

\* bool(segment), and bool(name) of a name kept split at its dots
truthy(segment) == segment \notin {NoneSegment, ""}
truthy_name(name) == name \notin {<<>>, <<"">>}

\* JellyfinParser.format_output_filename
JellyfinParser_format_output_filename(input_filename, target_language) ==
    LET parsed == JellyfinParser_parse_filename(input_filename)
        parts == (IF truthy_name(parsed.name) THEN parsed.name ELSE <<>>)
                 \o (IF truthy(parsed.track) THEN <<parsed.track>> ELSE <<>>)
                 \o <<target_language>>
                 \o (IF truthy(parsed.modifier) THEN <<parsed.modifier>> ELSE <<>>)
    IN  parts \o (IF parsed.extension # <<>> THEN parsed.extension ELSE <<"srt">>)

NotParsed ==
    [name |-> <<>>, track |-> NoneSegment, language |-> NoneSegment,
     modifier |-> NoneSegment, extension |-> <<>>]

\* JellyfinParser.parse_filename(n_filename)
jp_parse ==
    /\ n_pc = "start"
    /\ n_parsed' = JellyfinParser_parse_filename(n_filename)
    /\ n_pc' = "parsed"
    /\ UNCHANGED <<n_filename, n_target, n_output>>

\* JellyfinParser.format_output_filename(n_filename, n_target)
jp_format ==
    /\ n_pc = "parsed"
    /\ n_output' = JellyfinParser_format_output_filename(n_filename, n_target)
    /\ n_pc' = "formatted"
    /\ UNCHANGED <<n_filename, n_target, n_parsed>>

\* no file name is parsed or formatted
IdleName ==
    /\ n_filename = <<>>
    /\ n_target = ""
    /\ n_pc = "idle"
    /\ n_parsed = NotParsed
    /\ n_output = <<>>

(***************************************************************************)
(* The cache steps of concurrent translate_batch calls, one file-system    *)
(* call at a time.  The tasks of a run share one event loop               *)
(* (asyncio.run in translate_texts): a task runs from one await to the     *)
(* next, and the awaits of a batch are the remote call                     *)
(* (asyncio.to_thread) and the backoff wait (asyncio.sleep).  The tasks    *)
(* of the model have the same fingerprint.                                 *)
(***************************************************************************)
CacheTasks == 1..MaxCacheTasks

\* mutant: a task is resumed while another task is running, as a thread would be
loop_free_M == TRUE

\* the event loop takes the next task when the running one has reached an await
loop_free == c_running = 0

\* the event loop starts the task of batch i, or resumes it after its
\* backoff wait: the next attempt enters translate_batch
c_resume(i) ==
    /\ loop_free
    /\ c_pc[i] \in {"start", "sleep"}
    /\ c_pc' = [c_pc EXCEPT ![i] = "check"]
    /\ c_attempt' = [c_attempt EXCEPT ![i] = IF c_pc[i] = "sleep" THEN @ + 1 ELSE @]
    /\ c_running' = i
    /\ UNCHANGED <<c_file, c_writer>>

\* _get_cached_response: "if cache_file.exists()"
c_exists(i) ==
    /\ c_running = i
    /\ c_pc[i] = "check"
    /\ c_pc' = [c_pc EXCEPT ![i] = IF c_file = "absent" THEN "export" ELSE "load"]
    /\ UNCHANGED <<c_attempt, c_file, c_writer, c_running>>

\* _get_cached_response: open and json.load.  A complete record is a hit,
\* and translate_batch returns its parse; a truncated file raises
\* JSONDecodeError.
c_load(i) ==
    /\ c_running = i
    /\ c_pc[i] = "load"
    /\ IF c_file = "record"
       THEN c_pc' = [c_pc EXCEPT ![i] = "done"] /\ c_running' = 0
       ELSE c_pc' = [c_pc EXCEPT ![i] = "unlink"] /\ c_running' = c_running
    /\ UNCHANGED <<c_attempt, c_file, c_writer>>

\* _get_cached_response: cache_file.unlink(missing_ok=True)
c_unlink(i) ==
    /\ c_running = i
    /\ c_pc[i] = "unlink"
    /\ c_file' = "absent"
    /\ c_pc' = [c_pc EXCEPT ![i] = "export"]
    /\ UNCHANGED <<c_attempt, c_writer, c_running>>

\* the debug export, to a file no call reads, then
\* "await asyncio.to_thread(self.model.generate_content, prompt)"
c_export(i) ==
    /\ c_running = i
    /\ c_pc[i] = "export"
    /\ c_pc' = [c_pc EXCEPT ![i] = "remote"]
    /\ c_running' = 0
    /\ UNCHANGED <<c_attempt, c_file, c_writer>>

\* the remote call is over and the event loop resumes the task: with a
\* text it goes on to _save_cached_response, without one it returns, and
\* after an exception it returns or enters "await asyncio.sleep(delay)"
c_return(i) ==
    /\ loop_free
    /\ c_pc[i] = "remote"
    /\ \E outcome \in {"text", "no text", "raise"} :
          CASE outcome = "text" ->
                  c_pc' = [c_pc EXCEPT ![i] = "open"] /\ c_running' = i
            [] outcome = "no text" ->
                  c_pc' = [c_pc EXCEPT ![i] = "done"] /\ c_running' = c_running
            [] outcome = "raise" ->
                  /\ c_pc' = [c_pc EXCEPT ![i] = IF retries_exhausted(c_attempt[i])
                                                  THEN "done" ELSE "sleep"]
                  /\ c_running' = c_running
    /\ UNCHANGED <<c_attempt, c_file, c_writer>>

\* _save_cached_response: open(cache_file, "w") empties the file, or raises
\* IOError, which is swallowed
c_open(i) ==
    /\ c_running = i
    /\ c_pc[i] = "open"
    /\ IF cache_writable
       THEN /\ c_file' = "truncated"
            /\ c_writer' = i
            /\ c_pc' = [c_pc EXCEPT ![i] = "dump"]
            /\ c_running' = c_running
       ELSE /\ c_pc' = [c_pc EXCEPT ![i] = "done"]
            /\ c_running' = 0
            /\ UNCHANGED <<c_file, c_writer>>
    /\ UNCHANGED c_attempt

\* _save_cached_response: json.dump and the end of the with block, then the
\* parse and the return of translate_batch
c_dump(i) ==
    /\ c_running = i
    /\ c_pc[i] = "dump"
    /\ c_file' = "record"
    /\ c_writer' = 0
    /\ c_pc' = [c_pc EXCEPT ![i] = "done"]
    /\ c_running' = 0
    /\ UNCHANGED c_attempt

\* no task takes cache steps
IdleCache ==
    /\ c_pc = <<>>
    /\ c_attempt = <<>>
    /\ c_file = "absent"
    /\ c_writer = 0
    /\ c_running = 0

IdleAux == IdleFile /\ IdleDir /\ IdleSrt /\ IdleName /\ IdleCache

(***************************************************************************)
(* Specifications                                                          *)
(***************************************************************************)
InitRun ==
    /\ phase = "idle"
    /\ batch_groups = <<>>
    /\ sem_value = 0
    /\ pc = <<>>
    /\ attempt = <<>>
    /\ delay = <<>>
    /\ cached_response = <<>>
    /\ ret = <<>>
    /\ calls = <<>>
    /\ last_outcome = <<>>
    /\ first_finished = 0
    /\ translations = <<>>
    /\ success_flags = <<>>
    /\ error_messages = <<>>
    /\ all_translations = <<>>
    /\ progress_calls = <<>>

\* the key the first batch of a call uses
FirstKey(ts, size) ==
    _get_cache_key(split_batches(ts, size)[1], TargetLanguage, SourceLanguage)

\* what the file of a key may hold before the call: a record left by an
\* earlier call, or a damaged file.  The directory starts empty or with one
\* such file under the key of the first batch.
InitialContents == {Record(R1)} \cup {Corrupt(kind) : kind \in CorruptKinds}

Init ==
    /\ texts \in TextLists
    /\ batch_size \in 1..MaxBatchSize
    /\ max_retries \in {0, MaxRetriesBound}
    /\ max_concurrent \in 1..MaxConcurrentBound
    /\ base_delay = DefaultBaseDelay
    /\ max_delay = DefaultMaxDelay
    /\ cache_writable \in BOOLEAN
    /\ \/ cache_dir = NoFiles
       \/ /\ texts # <<>>
          /\ \E content \in InitialContents :
               cache_dir = WriteFile(NoFiles, CacheFile(FirstKey(texts, batch_size), ""),
                                     content)
    /\ InitRun
    /\ p_raw = <<>>
    /\ p_texts = <<>>
    /\ p_cached = Unset
    /\ p_inline = Unset
    /\ IdleAux

Next ==
    \/ translate_texts
    \/ \E i \in Batches : acquire(i)
    \/ \E i \in Batches : remote_returns(i)
    \/ \E i \in Batches : wake_up(i)
    \/ gather
    \/ clear_cache

Spec == Init /\ [][Next]_vars

\* the parsers applied to every raw response and text list within the bounds
InitParse ==
    /\ texts = <<>>
    /\ batch_size = 1
    /\ max_retries = 0
    /\ max_concurrent = 1
    /\ base_delay = DefaultBaseDelay
    /\ max_delay = DefaultMaxDelay
    /\ cache_writable = TRUE
    /\ cache_dir = NoFiles
    /\ InitRun
    /\ p_raw \in SeqUpTo(Alphabet, MaxRawLen)
    /\ p_texts \in {ParseTexts(n) : n \in 0..MaxParseTexts}
    /\ p_cached = Unset
    /\ p_inline = Unset
    /\ IdleAux

NextParse == parse_cached \/ parse_inline

SpecParse == InitParse /\ [][NextParse]_vars

\* the batch client at rest
IdleClient ==
    /\ texts = <<>>
    /\ batch_size = 1
    /\ max_retries = 0
    /\ max_concurrent = 1
    /\ base_delay = DefaultBaseDelay
    /\ max_delay = DefaultMaxDelay
    /\ cache_writable = TRUE
    /\ cache_dir = NoFiles
    /\ InitRun
    /\ p_raw = <<>>
    /\ p_texts = <<>>
    /\ p_cached = Unset
    /\ p_inline = Unset

\* one translate_file call, for every input within the bounds
InitFile ==
    /\ IdleClient
    /\ IdleDir
    /\ IdleSrt
    /\ IdleName
    /\ IdleCache
    /\ f_exists \in BOOLEAN
    /\ f_entries \in {EntryList(n) : n \in 0..MaxEntries}
    /\ f_batch_size \in 1..MaxBatchSize
    /\ f_output_path \in {NoPath, ExplicitOutput}
    /\ f_pc = "start"
    /\ f_batches = <<>>
    /\ f_results = <<>>
    /\ f_remote_calls = 0
    /\ f_printed = <<>>
    /\ f_written = NoFiles
    /\ f_return = NoReturn

NextFile ==
    \/ (tf_begin /\ UNCHANGED <<configVars, runVars, parseVars, cacheVars, dirVars, srtVars, nameVars>>)
    \/ \E i \in 1..Len(f_results) :
          tf_batch(i) /\ UNCHANGED <<configVars, runVars, parseVars, cacheVars, dirVars, srtVars, nameVars>>
    \/ (tf_finish /\ UNCHANGED <<configVars, runVars, parseVars, cacheVars, dirVars, srtVars, nameVars>>)

SpecFile == InitFile /\ [][NextFile]_vars

\* one translate_directory call, for every directory within the bounds
InitDir ==
    /\ IdleClient
    /\ IdleFile
    /\ IdleSrt
    /\ IdleName
    /\ IdleCache
    /\ d_fs \in Directories(MaxDirFiles)
    /\ d_filter \in FilterLanguages
    /\ d_pc = "start"
    /\ d_order = <<>>
    /\ d_idx = 0
    /\ d_results = <<>>
    /\ d_attempted = <<>>
    /\ d_remote = {}

NextDir ==
    \/ (td_start /\ UNCHANGED <<configVars, runVars, parseVars, cacheVars, fileVars, srtVars, nameVars>>)
    \/ (td_check /\ UNCHANGED <<configVars, runVars, parseVars, cacheVars, fileVars, srtVars, nameVars>>)
    \/ (td_translate /\ UNCHANGED <<configVars, runVars, parseVars, cacheVars, fileVars, srtVars, nameVars>>)
    \/ (td_return /\ UNCHANGED <<configVars, runVars, parseVars, cacheVars, fileVars, srtVars, nameVars>>)

SpecDir == InitDir /\ [][NextDir]_vars

\* one file written by write_srt_file and read by each parser, for every
\* entry list within the bounds
InitSrt ==
    /\ IdleClient
    /\ IdleFile
    /\ IdleDir
    /\ IdleName
    /\ IdleCache
    /\ s_entries \in UNION {SrtEntryLists(n) : n \in 0..MaxSrtEntries}
    /\ s_content = <<>>
    /\ s_pc = "start"
    /\ s_parsed = <<>>
    /\ s_parsed_tr = <<>>
    /\ s_done = {}

NextSrt ==
    \/ (srt_write /\ UNCHANGED <<configVars, runVars, parseVars, cacheVars, fileVars, dirVars, nameVars>>)
    \/ (srt_parse /\ UNCHANGED <<configVars, runVars, parseVars, cacheVars, fileVars, dirVars, nameVars>>)
    \/ (tr_parse /\ UNCHANGED <<configVars, runVars, parseVars, cacheVars, fileVars, dirVars, nameVars>>)

SpecSrt == InitSrt /\ [][NextSrt]_vars

\* one file name parsed and formatted, for every name within the bounds
InitName ==
    /\ IdleClient
    /\ IdleFile
    /\ IdleDir
    /\ IdleSrt
    /\ IdleCache
    /\ n_filename \in Filenames(MaxNameParts)
    /\ n_target \in TargetLanguages
    /\ n_pc = "start"
    /\ n_parsed = NotParsed
    /\ n_output = <<>>

NextName ==
    \/ (jp_parse /\ UNCHANGED <<configVars, runVars, parseVars, cacheVars, fileVars, dirVars, srtVars>>)
    \/ (jp_format /\ UNCHANGED <<configVars, runVars, parseVars, cacheVars, fileVars, dirVars, srtVars>>)

SpecName == InitName /\ [][NextName]_vars

\* the batching of translate_texts and of translate_srt_entries, for every
\* list and batch size within the bounds
InitBatch ==
    /\ texts \in SeqUpTo(TextPool, MaxBatchTexts)
    /\ batch_size \in 1..MaxBatchSize
    /\ max_retries = 0
    /\ max_concurrent = 1
    /\ base_delay = DefaultBaseDelay
    /\ max_delay = DefaultMaxDelay
    /\ cache_writable = TRUE
    /\ cache_dir = NoFiles
    /\ InitRun
    /\ p_raw = <<>>
    /\ p_texts = <<>>
    /\ p_cached = Unset
    /\ p_inline = Unset
    /\ IdleDir
    /\ IdleSrt
    /\ IdleName
    /\ IdleCache
    /\ f_exists = TRUE
    /\ f_entries \in {EntryList(n) : n \in 0..MaxEntries}
    /\ f_batch_size \in 1..MaxBatchSize
    /\ f_output_path = NoPath
    /\ f_pc = "start"
    /\ f_batches = <<>>
    /\ f_results = <<>>
    /\ f_remote_calls = 0
    /\ f_printed = <<>>
    /\ f_written = NoFiles
    /\ f_return = NoReturn

NextBatch ==
    \/ translate_texts
    \/ (tf_begin /\ UNCHANGED <<configVars, runVars, parseVars, cacheVars, dirVars, srtVars, nameVars>>)

SpecBatch == InitBatch /\ [][NextBatch]_vars

\* the lines a response of numbered items is built from: items with and
\* without text, a line without number, an empty line
ItemLines ==
    { <<"1", ".">>, <<"1", ".", " ", "a">>, <<"2", ".">>, <<"2", ".", " ", "b">>,
      <<"3", ".", " ", "c">>, <<"x">>, <<>> }

\* the responses of at most max such lines
ItemResponses(max) == {join(<<"\n">>, lines) : lines \in SeqUpTo(ItemLines, max)}

\* the parsers applied to every response of numbered items within the bounds
InitItems ==
    /\ texts = <<>>
    /\ batch_size = 1
    /\ max_retries = 0
    /\ max_concurrent = 1
    /\ base_delay = DefaultBaseDelay
    /\ max_delay = DefaultMaxDelay
    /\ cache_writable = TRUE
    /\ cache_dir = NoFiles
    /\ InitRun
    /\ p_raw \in ItemResponses(MaxItemLines)
    /\ p_texts \in {ParseTexts(n) : n \in 0..MaxItemTexts}
    /\ p_cached = Unset
    /\ p_inline = Unset
    /\ IdleAux

SpecItems == InitItems /\ [][NextParse]_vars

\* one batch retried under every delay configuration within the bounds; float()
\* accepts negative delays as well
InitBackoff ==
    /\ texts = <<T1>>
    /\ batch_size = 1
    /\ max_retries \in 0..MaxBackoffRetries
    /\ max_concurrent = 1
    /\ base_delay \in -1..MaxBaseDelay
    /\ max_delay \in -1..MaxMaxDelay
    /\ cache_writable = TRUE
    /\ cache_dir = NoFiles
    /\ InitRun
    /\ p_raw = <<>>
    /\ p_texts = <<>>
    /\ p_cached = Unset
    /\ p_inline = Unset
    /\ IdleAux

SpecBackoff == InitBackoff /\ [][Next]_vars

\* a translate_texts call under every configuration the constructor accepts
\* within the bounds: int() takes zero and negative numbers as well.  The
\* texts of the call differ from each other, so that no batch finds the
\* record another batch of the call has written.
InitConfig ==
    /\ texts \in {ts \in TextLists : \A i, j \in 1..Len(ts) : ts[i] = ts[j] => i = j}
    /\ batch_size \in -1..MaxBatchSize
    /\ max_retries \in -1..MaxRetriesBound
    /\ max_concurrent \in -1..MaxConcurrentBound
    /\ base_delay = DefaultBaseDelay
    /\ max_delay = DefaultMaxDelay
    /\ cache_writable = TRUE
    /\ cache_dir = NoFiles
    /\ InitRun
    /\ p_raw = <<>>
    /\ p_texts = <<>>
    /\ p_cached = Unset
    /\ p_inline = Unset
    /\ IdleAux

\* The event loop runs as long as some task can run: the call is made, a
\* task that can enter the semaphore enters it, every remote call returns or
\* raises, every backoff wait ends, and gather returns when the tasks are done.
RunStep ==
    \/ translate_texts
    \/ \E i \in Batches : acquire(i)
    \/ \E i \in Batches : remote_returns(i)
    \/ \E i \in Batches : wake_up(i)
    \/ gather

Fairness == WF_vars(RunStep)

SpecLive == InitConfig /\ [][Next]_vars /\ Fairness

\* concurrent batches of one fingerprint, with the file absent, complete, or
\* left truncated by an interrupted earlier run
InitCache ==
    /\ texts = <<>>
    /\ batch_size = 1
    /\ max_retries \in {0, MaxRetriesBound}
    /\ max_concurrent = MaxCacheTasks
    /\ base_delay = DefaultBaseDelay
    /\ max_delay = DefaultMaxDelay
    /\ cache_writable \in BOOLEAN
    /\ cache_dir = NoFiles
    /\ InitRun
    /\ p_raw = <<>>
    /\ p_texts = <<>>
    /\ p_cached = Unset
    /\ p_inline = Unset
    /\ IdleFile
    /\ IdleDir
    /\ IdleSrt
    /\ IdleName
    /\ c_pc = [i \in CacheTasks |-> "start"]
    /\ c_attempt = [i \in CacheTasks |-> 0]
    /\ c_file \in {"absent", "record", "truncated"}
    /\ c_writer = 0
    /\ c_running = 0

NextCache ==
    \E i \in CacheTasks :
        /\ \/ c_resume(i)
           \/ c_exists(i)
           \/ c_load(i)
           \/ c_unlink(i)
           \/ c_export(i)
           \/ c_return(i)
           \/ c_open(i)
           \/ c_dump(i)
        /\ UNCHANGED <<configVars, runVars, parseVars, fileVars, dirVars, srtVars, nameVars>>

SpecCache == InitCache /\ [][NextCache]_vars

(***************************************************************************)
(* Properties                                                              *)
(***************************************************************************)
BatchKey(i) == _get_cache_key(batch_groups[i], TargetLanguage, SourceLanguage)
MainFile(i) == CacheFile(BatchKey(i), "")
DebugFile(i) == CacheFile(BatchKey(i), "_debug")

\* a translate_batch call of batch i starts in this step
CallStarts(i) == pc[i] \in {"queued", "sleep"} /\ pc'[i] # pc[i]

\* the file holds a record with a non-empty raw response
HoldsResponse(dir, name) ==
    name \in DOMAIN dir /\ dir[name].kind = "record" /\ dir[name].raw_response # <<>>

Retryable(o) == o.kind = "raise" /\ o.exc \notin {"PermissionDenied", "NotFound"}

ExpectedMessage(exc) ==
    IF exc = "ResourceExhausted" THEN <<"Rate limit exceeded: ", exc>> ELSE <<exc>>

FailedTriple(i, exc) ==
    [texts |-> batch_groups[i], success |-> FALSE, error |-> ExpectedMessage(exc)]

\* C1: whatever the raw response, each parser returns exactly as many texts
\* as it was given (the inline parser runs only on a non-empty response text).
C1_Cardinality ==
    /\ p_cached.status = "returned" => Len(p_cached.value) = Len(p_texts)
    /\ p_inline.status = "returned" => Len(p_inline.value) = Len(p_texts)

\* C1 witness: both parsers ran on a response whose numbered pass found one
\* item for two texts.
C1_Witness ==
    /\ p_cached.status = "returned"
    /\ p_inline.status = "returned"
    /\ Len(p_texts) = 2
    /\ Len(numbered_pass(p_raw)) = 1

\* C2: when translate_texts has returned, the three lists have one entry per
\* batch, entry i is what the task of batch i returned, and the translation
\* of text j stands at position j of the returned list.
C2_OrderPreserved ==
    phase = "returned" =>
        /\ Len(translations) = Len(batch_groups)
        /\ Len(success_flags) = Len(batch_groups)
        /\ Len(error_messages) = Len(batch_groups)
        /\ \A i \in Batches :
              /\ translations[i] = ret[i].texts
              /\ success_flags[i] = ret[i].success
              /\ error_messages[i] = ret[i].error
        /\ Len(all_translations) = Len(texts)
        /\ \A j \in 1..Len(texts) :
              all_translations[j] =
                  ret[((j - 1) \div batch_size) + 1].texts[((j - 1) % batch_size) + 1]

\* C2 witness: the second batch finished first, with another outcome than
\* the first batch.
C2_Witness ==
    /\ phase = "returned"
    /\ first_finished = 2
    /\ ret[1] # ret[2]

\* C3: a batch makes at most max_retries + 1 attempts; after a retryable
\* failure it waits for another attempt while attempts remain, and gives up
\* only after the last one, with the original texts, success = false and
\* the message of that last error; an attempt that gets a response (or a
\* cache hit) ends the batch with success = true.
C3_RetryThenGiveUp ==
    \A i \in Batches :
        /\ attempt[i] <= max_retries
        /\ calls[i] <= max_retries + 1
        /\ pc[i] = "sleep" => Retryable(last_outcome[i]) /\ attempt[i] < max_retries
        /\ (Retryable(last_outcome[i]) /\ pc[i] # "sleep") =>
              /\ pc[i] = "done"
              /\ ret[i] = FailedTriple(i, last_outcome[i].exc)
              /\ last_outcome[i].exc \in RemoteErrors => calls[i] = max_retries + 1
        /\ (pc[i] = "done" /\ last_outcome[i].kind \in {"hit", "response"}) =>
              ret[i].success /\ ret[i].error = NoMessage

\* C3 witness: a batch failed max_retries >= 1 times and then got a response.
C3_Witness ==
    \E i \in Batches :
        /\ max_retries >= 1
        /\ pc[i] = "done"
        /\ calls[i] = max_retries + 1
        /\ last_outcome[i].kind = "response"
        /\ ret[i].success

\* C4: a batch whose remote call raised permission-denied or not-found is
\* done in the same step, with the original texts, success = false and the
\* message: it never waits and never calls again.
C4_NonRetryable ==
    \A i \in Batches :
        (last_outcome[i].kind = "raise"
         /\ last_outcome[i].exc \in {"PermissionDenied", "NotFound"}) =>
            /\ pc[i] = "done"
            /\ ret[i] = [texts |-> batch_groups[i], success |-> FALSE,
                         error |-> <<last_outcome[i].exc>>]

\* C4 witness: permission-denied on the first call of a batch that had
\* retries left.
C4_Witness ==
    \E i \in Batches :
        /\ max_retries >= 1
        /\ last_outcome[i] = Raised("PermissionDenied")
        /\ calls[i] = 1
        /\ pc[i] = "done"

InFlight == {i \in Batches : pc[i] = "remote"}
SlotHolders == {i \in Batches : pc[i] \in {"remote", "sleep"}}

\* C5: at most max_concurrent remote calls are in flight, and a queued batch
\* starts only in a state where fewer than max_concurrent batches hold a slot.
C5_ConcurrencyCap ==
    /\ [](Cardinality(InFlight) <= max_concurrent)
    /\ [][\A i \in Batches :
             (pc[i] = "queued" /\ pc'[i] # "queued") =>
                 Cardinality(SlotHolders) < max_concurrent]_vars

\* C5 witness: max_concurrent calls are in flight and a batch is waiting.
C5_Witness ==
    /\ Cardinality(InFlight) = max_concurrent
    /\ \E i \in Batches : pc[i] = "queued"

\* C6: no task and no call raises; every finished batch has a triple of the
\* right shape, a failed one the original texts and a message, one whose
\* last attempt got a response or a cache hit the parse of that response,
\* whatever its siblings did; the returned lists have one entry per batch.
C6_FailuresContained ==
    /\ phase # "raised"
    /\ \A i \in Batches : pc[i] # "raised"
    /\ phase = "returned" =>
          /\ Len(translations) = Len(batch_groups)
          /\ Len(success_flags) = Len(batch_groups)
          /\ Len(error_messages) = Len(batch_groups)
    /\ \A i \in Batches :
          pc[i] = "done" =>
              /\ Len(ret[i].texts) = Len(batch_groups[i])
              /\ last_outcome[i].kind = "raise" =>
                    /\ ret[i].texts = batch_groups[i]
                    /\ ~ret[i].success
                    /\ ret[i].error # NoMessage
              /\ last_outcome[i].kind \in {"hit", "response"} =>
                    ret[i] = [texts |-> _parse_gemini_response(
                                            strip(last_outcome[i].text),
                                            batch_groups[i]),
                              success |-> TRUE, error |-> NoMessage]

\* C6 witness: a call returned with a failed batch next to a translated one.
C6_Witness ==
    /\ phase = "returned"
    /\ \E i, j \in Batches :
          /\ ~success_flags[i]
          /\ success_flags[j]
          /\ translations[j] # batch_groups[j]

C9_Original ==
    [][\A name \in DOMAIN cache_dir :
          (phase = "running" /\ HoldsResponse(cache_dir, name)) =>
              /\ name \in DOMAIN cache_dir'
              /\ cache_dir'[name] = cache_dir[name]]_vars

\* C9 amended: while a call runs, a record that holds a non-empty raw
\* response is changed only by the return of a remote call of a batch with
\* that fingerprint whose own cache read had found no response, and it then
\* holds the stripped text of that remote call.
C9_OnlyInFlightWriters ==
    [][\A name \in DOMAIN cache_dir :
          (/\ phase = "running"
           /\ HoldsResponse(cache_dir, name)
           /\ (name \notin DOMAIN cache_dir' \/ cache_dir'[name] # cache_dir[name])) =>
              \E i \in Batches :
                  /\ name = MainFile(i)
                  /\ pc[i] = "remote"
                  /\ ~(cached_response[i].status = "value"
                       /\ cached_response[i].value # <<>>)
                  /\ last_outcome'[i].kind = "response"
                  /\ name \in DOMAIN cache_dir'
                  /\ cache_dir'[name] = Record(strip(last_outcome'[i].text))]_vars

\* C9 witness: two equal batches were in flight together, got different
\* texts, and the record holds the text of the one that returned last.
C9_Witness ==
    \E i, j \in Batches :
        /\ i # j
        /\ batch_groups[i] = batch_groups[j]
        /\ pc[i] = "done" /\ last_outcome[i].kind = "response"
        /\ pc[j] = "done" /\ last_outcome[j].kind = "response"
        /\ strip(last_outcome[i].text) # <<>>
        /\ strip(last_outcome[j].text) # <<>>
        /\ strip(last_outcome[i].text) # strip(last_outcome[j].text)
        /\ first_finished = i
        /\ HoldsResponse(cache_dir, MainFile(j))
        /\ cache_dir[MainFile(j)] = Record(strip(last_outcome[j].text))

\* C10 as claimed: a call that finds a damaged file under its fingerprint
\* removes it and goes on to the remote call.
C10_CorruptIsMiss ==
    [][\A i \in Batches :
          (/\ CallStarts(i)
           /\ MainFile(i) \in DOMAIN cache_dir
           /\ cache_dir[MainFile(i)].kind \in CorruptKinds) =>
              /\ pc'[i] = "remote"
              /\ MainFile(i) \notin DOMAIN cache_dir']_vars

\* C11: the progress callback is not called while batches are attempted;
\* when translate_texts returns it has been called exactly once per batch,
\* call i with (i, number of batches), whether the batch was translated or
\* not and however many attempts it took.
C11_ProgressPerBatch ==
    /\ phase = "running" => progress_calls = <<>>
    /\ phase = "returned" =>
          /\ Len(progress_calls) = Len(batch_groups)
          /\ \A i \in 1..Len(progress_calls) :
                progress_calls[i] = <<i, Len(batch_groups)>>

\* C11 witness: a call of two batches returned, one batch failed and one
\* needed two remote calls.
C11_Witness ==
    /\ phase = "returned"
    /\ Len(batch_groups) = 2
    /\ \E i, j \in Batches : ~success_flags[i] /\ calls[j] = 2
    /\ progress_calls = <<<<1, 2>>, <<2, 2>>>>

\* the path translate_file writes to
OutputName ==
    IF f_output_path = NoPath
    THEN JellyfinFormatter_format_output_filename(InputName, TargetLanguage)
    ELSE f_output_path

\* the batch that holds entry k of the input
BatchOf(k) == ((k - 1) \div f_batch_size) + 1

FailedBatches == {i \in 1..Len(f_results) : ~f_results[i].success}

\* C12: when translate_file has returned for an existing input with at least
\* one parsed entry, the output file is written with one entry per input
\* entry, the entries of a failed batch carry their original text, the call
\* returns the counts and the output name, and the numbers of exactly the
\* failed batches have been printed, in order.
C12_OutputAlwaysWritten ==
    (f_pc = "returned" /\ f_exists /\ f_entries # <<>>) =>
        /\ DOMAIN f_written = {OutputName}
        /\ Len(f_written[OutputName]) = Len(f_entries)
        /\ \A k \in 1..Len(f_entries) :
              BatchOf(k) \in FailedBatches =>
                  f_written[OutputName][k] = f_entries[k]
        /\ f_return = [total_entries |-> Len(f_entries),
                       translated_entries |-> Len(f_entries),
                       output_filename |-> OutputName]
        /\ Len(f_printed) = Cardinality(FailedBatches)
        /\ \A n \in 1..Len(f_printed) : f_printed[n] \in FailedBatches
        /\ \A n \in 1..(Len(f_printed) - 1) : f_printed[n] < f_printed[n + 1]

\* C12 witness: every batch of a file of several batches failed and the
\* output holds the original entries.
C12_Witness ==
    /\ f_pc = "returned"
    /\ Len(f_batches) >= 2
    /\ FailedBatches = 1..Len(f_batches)
    /\ OutputName \in DOMAIN f_written
    /\ f_written[OutputName] = f_entries
    /\ f_printed = [n \in 1..Len(f_batches) |-> n]

\* C13: whatever the batches returned, translate_srt_entries yields as many
\* entries as it was given, entry i with the index, start time and end time
\* of input entry i, and translate_file writes exactly these.
C13_EntriesAligned ==
    (f_pc = "returned" /\ f_exists /\ f_entries # <<>>) =>
        LET out == translated_entries(f_batches, f_results)
        IN  /\ Len(out) = Len(f_entries)
            /\ \A k \in 1..Len(out) :
                  /\ out[k].index = f_entries[k].index
                  /\ out[k].start_time = f_entries[k].start_time
                  /\ out[k].end_time = f_entries[k].end_time
                  /\ out[k].text \in {f_entries[k].text, Translate(f_entries[k].text)}
            /\ OutputName \in DOMAIN f_written
            /\ f_written[OutputName] = out

\* C13 witness: a file of several batches, the first translated and the
\* last failed.
C13_Witness ==
    /\ f_pc = "returned"
    /\ Len(f_entries) = MaxEntries
    /\ Len(f_batches) >= 2
    /\ f_results[1].success
    /\ ~f_results[Len(f_batches)].success
    /\ f_written[OutputName][1].text = Translate(f_entries[1].text)
    /\ f_written[OutputName][MaxEntries].text = f_entries[MaxEntries].text

\* C14 as claimed: for a missing input, or an input without a parsable
\* entry, translate_file does not return to its caller with a value, makes
\* no remote call and writes no file.
C14_HardErrors ==
    (f_pc # "start" /\ (~f_exists \/ f_entries = <<>>)) =>
        /\ f_pc # "returned"
        /\ f_remote_calls = 0
        /\ f_written = NoFiles

LanguageOf(name) == JellyfinFormatter_parse_filename(name).language
OutputOf(name) == JellyfinFormatter_format_output_filename(name, TargetLanguage)
Range(seq) == {seq[k] : k \in 1..Len(seq)}

\* the file the loop of translate_directory is about to look at
FileInHand == d_order[d_idx]

\* C15: when the loop looks at a file whose detected language is the target
\* language, or whose output path exists, or whose language differs from a
\* given filter_language, it goes on to the next file: the file is not
\* handed to translate_file, nothing is written and no remote call is made;
\* every other file is handed to translate_file.  Remote calls are made only
\* for files handed to translate_file, and the loop looks at every .srt file.
C15_SkipRules ==
    /\ [](/\ d_remote \subseteq Range(d_attempted)
          /\ d_pc \in {"loop", "translating", "returned"} =>
                Range(d_order) = {n \in glob_srt(d_fs) : d_fs[n] # "translated"}
          /\ d_pc = "returned" => d_idx = Len(d_order) + 1)
    /\ [][(d_pc = "loop" /\ d_idx <= Len(d_order)) =>
             IF \/ LanguageOf(FileInHand) = TargetLanguage
                \/ OutputOf(FileInHand) \in DOMAIN d_fs
                \/ (d_filter # "" /\ LanguageOf(FileInHand) # d_filter)
             THEN /\ d_attempted' = d_attempted
                  /\ d_fs' = d_fs
                  /\ d_remote' = d_remote
                  /\ d_pc' = "loop"
                  /\ d_idx' = d_idx + 1
             ELSE /\ d_attempted' = Append(d_attempted, FileInHand)
                  /\ d_pc' = "translating"]_vars

\* C15 witness: with no filter, a file in another language than the target
\* was passed over because an earlier file of the pass had written its
\* output path.
C15_Witness ==
    /\ d_pc = "returned"
    /\ d_filter = ""
    /\ \E n \in Range(d_order) :
          /\ n \notin Range(d_attempted)
          /\ LanguageOf(n) # TargetLanguage
          /\ OutputOf(n) \in DOMAIN d_fs
          /\ d_fs[OutputOf(n)] = "translated"

\* the files of the pass that were written, in the order of their writing
RECURSIVE WrittenOf(_)
WrittenOf(attempted) ==
    IF attempted = <<>> THEN <<>>
    ELSE (IF d_fs[Head(attempted)] = "subtitles"
          THEN <<[input_file |-> Head(attempted),
                  output_file |-> OutputOf(Head(attempted)),
                  entry_count |-> 1]>>
          ELSE <<>>)
         \o WrittenOf(Tail(attempted))

\* C16: a file is handed to translate_file only while no other file is in
\* translation; when translate_file returns, with or without a translation,
\* the loop goes on to the next file; the pass returns only after the last
\* file, and its result lists, in processing order, exactly the files whose
\* output was written.
C16_PassGoesOn ==
    /\ [](d_pc = "returned" =>
             /\ d_idx = Len(d_order) + 1
             /\ d_results = WrittenOf(d_attempted)
             /\ {n \in DOMAIN d_fs : d_fs[n] = "translated"}
                   = {d_results[k].output_file : k \in 1..Len(d_results)})
    /\ [][/\ d_attempted' # d_attempted => (d_pc = "loop" /\ d_pc' = "translating")
          /\ d_pc = "translating" => (d_pc' = "loop" /\ d_idx' = d_idx + 1)
          /\ d_pc' = "returned" => d_idx = Len(d_order) + 1]_vars

\* C16 witness: a file that could not be translated was followed by one that
\* was written.
C16_Witness ==
    /\ d_pc = "returned"
    /\ \E i, j \in 1..Len(d_attempted) :
          /\ i < j
          /\ d_fs[d_attempted[i]] = "nothing"
          /\ d_fs[d_attempted[j]] = "subtitles"
          /\ d_results = <<[input_file |-> d_attempted[j],
                            output_file |-> OutputOf(d_attempted[j]),
                            entry_count |-> 1]>>

\* a line of digits, with white space after them at most
digit_line(line) ==
    LET d == LeadingDigits(line)
    IN  d >= 1 /\ \A k \in (d + 1)..Len(line) : line[k] \in Whitespace

\* the text has an empty line
has_blank_line(text) ==
    LET lines == split(text) IN \E k \in 1..Len(lines) : lines[k] = <<>>

\* the text has an empty line directly followed by a line of digits
blank_then_digits(text) ==
    LET lines == split(text)
    IN  \E k \in 2..Len(lines) : lines[k - 1] = <<>> /\ digit_line(lines[k])

\* a text of one or more lines, without white space at either end and
\* without an empty line directly followed by a line of digits
plain_text(text) ==
    text # <<>> /\ strip(text) = text /\ ~blank_then_digits(text)

BlankLineCue ==
    /\ Len(s_entries) = 2
    /\ plain_text(s_entries[1].text)
    /\ has_blank_line(s_entries[1].text)
    /\ plain_text(s_entries[2].text)

\* C18: a cue whose text has an interior blank line, followed by another
\* valid block, is parsed as one entry whose text retains the blank line,
\* by srt_parser.SRTParser.parse_srt_file and by
\* translator.SRTParser.parse_srt_file alike.
C18_BlankLineKept ==
    BlankLineCue =>
        /\ "srt_parser" \in s_done =>
              Len(s_parsed) = 2 /\ s_parsed[1].text = s_entries[1].text
        /\ "translator" \in s_done =>
              Len(s_parsed_tr) = 2 /\ s_parsed_tr[1].text = s_entries[1].text

\* every piece of the name is a non-empty segment and the name has a suffix
PlainName(filename) ==
    has_suffix(filename) /\ \A k \in 1..Len(filename) : filename[k] # ""

\* C19: for a stem of any segment count, format_output_filename keeps every
\* segment of the stem in its place but one, the language segment, which it
\* replaces by target_language (a stem of one segment has no language
\* segment: target_language is added after it).
C19_LanguageReplaced ==
    (n_pc = "formatted" /\ PlainName(n_filename)) =>
        LET stem == stem_parts(n_filename)
            suffix == path_suffix(n_filename)
        IN  IF Len(stem) = 1
            THEN n_output = stem \o <<n_target>> \o suffix
            ELSE \E k \in 1..Len(stem) :
                    n_output = [stem EXCEPT ![k] = n_target] \o suffix

\* C20: parse_filename returns as modifier nothing but a recognised
\* modifier token, whatever the segment count.
C20_ModifierRecognised ==
    (n_pc \in {"parsed", "formatted"} /\ PlainName(n_filename))
        => n_parsed.modifier \in MODIFIERS \cup {NoneSegment}

\* batches are the slices of list of size elements each, the last one of
\* what is left: contiguous, in order, none empty, none longer than size
IsPartition(batches, list, size) ==
    /\ extend_all(batches) = list
    /\ \A i \in 1..Len(batches) :
          /\ Len(batches[i]) \in 1..size
          /\ batches[i] = SubSeq(list, (i - 1) * size + 1, Min(i * size, Len(list)))

\* C21: for every text list and batch size >= 1 the batches of translate_texts
\* (and the entry batches of translate_srt_entries) are contiguous slices in
\* original order, each of 1..batch_size elements, and concatenated they give
\* back the list: every element is in exactly one batch.
C21_BatchesPartition ==
    /\ phase # "idle" => IsPartition(batch_groups, texts, batch_size)
    /\ f_pc = "translating" => IsPartition(f_batches, f_entries, f_batch_size)

C21_Witness ==
    /\ phase = "running"
    /\ Len(texts) = 3 /\ batch_size = 2
    /\ Len(batch_groups) = 2 /\ Len(batch_groups[2]) = 1
    /\ f_pc = "translating"
    /\ Len(f_batches) = 2 /\ Len(f_batches[2]) = 1

\* the state of _parse_gemini_response when its loop over the lines ends
LoopEnd(raw_response) == parse_lines(split(strip(raw_response)), ParseStart)

\* the numbered items the loop recognised: expected_number went up once each
RecognisedItems(raw_response) == LoopEnd(raw_response).expected_number - 1

\* C22: in _parse_gemini_response every recognised numbered item is flushed
\* exactly once: before padding and truncation there are as many
\* translations as recognised items, also when an item is empty.
C22_FlushedOnce ==
    (p_cached.status = "returned" /\ p_raw # <<>>)
        => Len(numbered_pass(p_raw)) = RecognisedItems(p_raw)

\* the positional strategy as the spec words it: non-blank line i of the
\* response without its number prefix, or original text i when there is no
\* such line or nothing is left of it
Positional(response, originals, i) ==
    LET lines == SelectSeq(split(response), LAMBDA l : strip(l) # <<>>)
        clean == strip_number_prefix(strip(lines[i]))
    IN  IF i <= Len(lines) /\ clean # <<>> THEN clean ELSE originals[i]

\* the inline parser has returned after a numbered pass that miscounted
InlineMiscount ==
    /\ p_inline.status = "returned"
    /\ Len(inline_numbered_pass(strip(p_raw))) # Len(p_texts)

\* _parse_gemini_response has returned after a numbered pass that miscounted
CachedMiscount ==
    /\ p_cached.status = "returned"
    /\ p_raw # <<>>
    /\ Len(numbered_pass(p_raw)) # Len(p_texts)

\* C23 as stated: after a numbered pass that miscounts, each parser returns
\* the positional outputs.
C23_Original ==
    /\ InlineMiscount =>
          \A i \in 1..Len(p_texts) :
             p_inline.value[i] = Positional(strip(p_raw), p_texts, i)
    /\ CachedMiscount =>
          \A i \in 1..Len(p_texts) :
             p_cached.value[i] = Positional(strip(p_raw), p_texts, i)

\* C23: after a numbered pass that miscounts, the inline parser of
\* translator.py returns the positional outputs; _parse_gemini_response has
\* no positional strategy: it returns the translations of its numbered pass
\* in order, then original texts, cut to the number of input texts.
C23_FallbackInlineOnly ==
    /\ InlineMiscount =>
          /\ Len(p_inline.value) = Len(p_texts)
          /\ \A i \in 1..Len(p_texts) :
                p_inline.value[i] = Positional(strip(p_raw), p_texts, i)
    /\ CachedMiscount =>
          /\ Len(p_cached.value) = Len(p_texts)
          /\ \A i \in 1..Len(p_texts) :
                p_cached.value[i] =
                    IF i <= Len(numbered_pass(p_raw)) THEN numbered_pass(p_raw)[i]
                    ELSE p_texts[i]

C23_Witness ==
    /\ InlineMiscount
    /\ CachedMiscount
    /\ Len(p_texts) = 2
    /\ p_inline.value = << <<"x">>, <<"b">> >>
    /\ p_cached.value = p_texts

\* the attempt of batch i that the step ends, counted as the loop counts it
EndedAttempt(i) ==
    CASE pc[i] = "remote" -> attempt[i]
      [] pc[i] = "sleep" -> attempt[i] + 1
      [] OTHER -> 0

\* C24: the wait after failed attempt a < max_retries is
\* min(base_delay * 2^a + jitter, max_delay) with jitter in [0, 1), whichever
\* of the rate-limit, transient and unknown clauses took the error; it never
\* exceeds max_delay, and the final failed attempt is followed by the return,
\* not by a wait.
C24_BackoffDelay ==
    [][\A i \in DOMAIN pc' :
          /\ (pc'[i] = "sleep" /\ delay'[i] # (IF i \in DOMAIN delay THEN delay[i] ELSE <<>>)) =>
                /\ pc[i] \in {"queued", "remote", "sleep"}
                /\ attempt'[i] = EndedAttempt(i)
                /\ attempt'[i] < max_retries
                /\ handler_of(last_outcome'[i].exc)
                      \in {"rate_limit", "transient", "unknown"}
                /\ \E jitter \in Jitters :
                      delay'[i] = <<IF base_delay * (2 ^ attempt'[i]) + jitter < max_delay
                                     THEN base_delay * (2 ^ attempt'[i]) + jitter
                                     ELSE max_delay>>
                /\ delay'[i][1] <= max_delay
          /\ pc'[i] = "sleep" <=> delay'[i] # <<>>
          /\ (i \in DOMAIN pc /\ pc[i] # pc'[i] /\ last_outcome'[i].kind = "raise"
                /\ EndedAttempt(i) = max_retries) =>
                /\ pc'[i] \in {"done", "raised"}
                /\ delay'[i] = <<>>]_vars

\* a batch waits after its second failed attempt, and the cap cut the wait
C24_Witness ==
    \E i \in Batches :
        /\ pc[i] = "sleep"
        /\ attempt[i] = 1
        /\ max_delay > 0
        /\ base_delay * 2 > max_delay
        /\ delay[i] = <<max_delay>>
        /\ handler_of(last_outcome[i].exc) = "transient"
        /\ calls[i] = 2

\* The numbered items of a response, by number: item k starts at the line the
\* loop of _parse_gemini_response recognises as "k. ..." and runs, with its
\* continuation lines, up to the line recognised as item k + 1.
item_line(st, rawline) ==
    LET line == strip(rawline)
        m == number_match(st.expected_number, line)
    IN  IF line = <<>> THEN st
        ELSE IF m.matched
        THEN [items |-> IF st.expected_number > 1
                        THEN Append(st.items, strip(st.current_translation))
                        ELSE st.items,
              current_translation |-> m.group,
              expected_number |-> st.expected_number + 1]
        ELSE IF st.current_translation # <<>>
        THEN [st EXCEPT !.current_translation = @ \o <<"\n">> \o line]
        ELSE st

RECURSIVE item_lines(_, _)
item_lines(lines, st) ==
    IF lines = <<>> THEN st
    ELSE item_lines(Tail(lines), item_line(st, Head(lines)))

NumberedItems(raw_response) ==
    LET st == item_lines(split(strip(raw_response)),
                         [items |-> <<>>, current_translation |-> <<>>,
                          expected_number |-> 1])
    IN  IF st.expected_number > 1
        THEN Append(st.items, strip(st.current_translation))
        ELSE st.items

\* C25: the text _parse_gemini_response returns at a position is the
\* original text of that position or the text of the numbered item of that
\* position, never the text of a differently numbered item, also when an
\* item of the response is empty.
C25_ItemsAligned ==
    p_cached.status = "returned" =>
        \A i \in 1..Len(p_cached.value) :
            \/ p_cached.value[i] = p_texts[i]
            \/ /\ i <= Len(NumberedItems(p_raw))
               /\ p_cached.value[i] = NumberedItems(p_raw)[i]

\* C26: under every configuration the constructor accepts, and with every
\* remote call returning or raising in the end, a translate_texts call
\* comes to its end: translate_batches_concurrent returns (or raises), no
\* batch waits forever for a slot.
C26_Terminates == <>(phase \in {"returned", "raised"})

\* C27: a batch holds its slot from its first attempt to its final outcome,
\* backoff waits included: the free slots are max_concurrent less the
\* batches started and not finished, which are never more than
\* max_concurrent; a step into or out of a backoff wait moves no slot; and a
\* batch beyond the first max_concurrent starts only when another batch has
\* returned its final result.
C27_SlotHeldToTheEnd ==
    /\ [](phase \in {"running", "returned"} =>
            /\ sem_value = max_concurrent - Cardinality(SlotHolders)
            /\ Cardinality(SlotHolders) <= max_concurrent)
    /\ [][\A i \in Batches :
             /\ (pc[i] # pc'[i] /\ {pc[i], pc'[i]} = {"remote", "sleep"})
                   => sem_value' = sem_value
             /\ (pc[i] = "queued" /\ pc'[i] # "queued" /\ i > max_concurrent)
                   => \E j \in Batches \ {i} :
                         pc[j] = "done" /\ ret[j] # NoResult]_vars

\* C27 witness: a batch sleeps in a backoff wait on the last slot while
\* another batch waits for a slot.
C27_Witness ==
    \E i, j \in Batches :
        /\ pc[i] = "sleep"
        /\ delay[i] # <<>>
        /\ pc[j] = "queued"
        /\ sem_value = 0

\* C28: parse_filename finds the target language in the name that
\* format_output_filename gives the output file, for every file name and
\* every language code of the table.
C28_OutputLanguageDetected ==
    (n_pc = "formatted" /\ PlainName(n_filename)) =>
        JellyfinParser_parse_filename(n_output).language = n_target

\* the remote call of batch i returns in this step, without response or
\* with an empty response text
ReturnsNoText(i) ==
    /\ pc[i] = "remote"
    /\ pc'[i] # "remote"
    /\ last_outcome'[i] = Response(<<>>)

\* C29: a remote call that returns no response or an empty text ends the
\* batch at once with the original texts, success = true and no error
\* message; no further remote call is made for the batch, and the file of
\* its fingerprint is neither written nor changed.
C29_NoTextIsSuccess ==
    /\ [][\A i \in Batches :
             ReturnsNoText(i) =>
                 /\ pc'[i] = "done"
                 /\ ret'[i] = [texts |-> batch_groups[i], success |-> TRUE,
                               error |-> NoMessage]
                 /\ (MainFile(i) \in DOMAIN cache_dir') = (MainFile(i) \in DOMAIN cache_dir)
                 /\ MainFile(i) \in DOMAIN cache_dir =>
                        cache_dir'[MainFile(i)] = cache_dir[MainFile(i)]]_vars
    /\ [][\A i \in Batches :
             (pc[i] = "done" /\ last_outcome[i] = Response(<<>>)) =>
                 /\ i \in DOMAIN pc'
                 /\ <<pc'[i], ret'[i], calls'[i]>> = <<pc[i], ret[i], calls[i]>>]_vars

\* C29 witness: the first remote call of a batch came back without text; the
\* batch is done with its original texts and there is no record of its
\* fingerprint, while gather has returned.
C29_Witness ==
    \E i \in Batches :
        /\ phase = "returned"
        /\ pc[i] = "done"
        /\ last_outcome[i] = Response(<<>>)
        /\ calls[i] = 1
        /\ max_retries >= 1
        /\ success_flags[i] = TRUE
        /\ translations[i] = batch_groups[i]
        /\ MainFile(i) \notin DOMAIN cache_dir

\* the tasks that wait at an await, or have not started, or have returned
Suspended == {i \in CacheTasks : c_pc[i] \in {"start", "remote", "sleep", "done"}}

\* C30: the cache read and the cache write of a batch are single steps for
\* the other batches of the run: while a task is between two awaits no
\* other task moves, so while one task is writing the record every other
\* task waits at an await, no read finds the record half written, and no
\* task removes the file.
C30_CacheStepsIndivisible ==
    /\ [](c_writer # 0 =>
            /\ c_running = c_writer
            /\ c_file = "truncated"
            /\ CacheTasks \ {c_writer} \subseteq Suspended)
    /\ [](c_running = 0 => Suspended = CacheTasks)
    /\ [](c_running # 0 => CacheTasks \ {c_running} \subseteq Suspended)
    /\ [][\A i \in CacheTasks :
             /\ (c_pc[i] = "load" /\ c_pc'[i] # "load") => c_writer = 0
             /\ (c_pc[i] = "unlink" /\ c_pc'[i] # "unlink") => c_writer = 0
             /\ (c_running # 0 /\ i # c_running) => c_pc'[i] = c_pc[i]]_vars

\* C30 witness: a task has emptied the file and not yet written the record,
\* while another task, which will read the file, waits for the event loop.
C30_Witness ==
    \E i, j \in CacheTasks :
        /\ c_writer = i
        /\ c_pc[i] = "dump"
        /\ c_file = "truncated"
        /\ c_pc[j] \in {"start", "sleep"}

====
